---- MODULE Spec2Model ----
(***************************************************************************)
(* Layout engine of open-epaper-gen (src/open-epaper-gen/src/draw.rs):     *)
(* Bounds arithmetic, Padding, Spacer, the test views and the two stacks   *)
(* (VStack, HStack) with their measure (View::bounds) and paint            *)
(* (View::draw) operations.                                                *)
(*                                                                         *)
(* Unsigned machine words are modelled with WordBits bits instead of 32:   *)
(* every u32 operation is computed modulo Modulus and an "ovf" flag        *)
(* records that some operation left the word range.  A debug build panics  *)
(* at the first such operation, a release build continues with the wrapped *)
(* value; every call picks one of the two builds.                          *)
(***************************************************************************)
EXTENDS Integers, Naturals, Sequences, FiniteSets, TLC

\* ------------------------------------------------------------------ bounds
WordBits == 14
MaxViews == 3

Modulus == 2 ^ WordBits
Half == 2 ^ (WordBits - 1)

\* ------------------------------------------------------- word arithmetic
Wrap(n) == n % Modulus

\* `x as i32`: reinterpret an unsigned word as a two's complement word.
AsSigned(n) == IF n >= Half THEN n - Modulus ELSE n

\* A signed subtraction leaves the signed range.
SignedSubOvf(a, b) == (a - b < 0 - Half) \/ (a - b >= Half)

\* The signed difference as the release build computes it (wrapping).
SignedSubWrap(a, b) == AsSigned(Wrap(a - b + Modulus))

AddOvf(a, b) == a + b >= Modulus
SubOvf(a, b) == a < b
MulOvf(a, b) == a * b >= Modulus

Min(a, b) == IF a < b THEN a ELSE b

\* ---------------------------------------------------------------- Bounds
Hints == {"Optimal", "InfiniteSpace", "ZeroSpace"}

BoundsNew(w, h) == [width |-> w, height |-> h, hint |-> "Optimal"]

width_adjusted(b, w) == [width |-> w, height |-> b.height, hint |-> b.hint]
height_adjusted(b, h) == [width |-> b.width, height |-> h, hint |-> b.hint]
zero_hinted(b) == [width |-> b.width, height |-> b.height, hint |-> "ZeroSpace"]
optimally_hinted(b) == [width |-> b.width, height |-> b.height, hint |-> "Optimal"]
infinitely_hinted(b) == [width |-> b.width, height |-> b.height, hint |-> "InfiniteSpace"]
copy_hint(b, w, h) == [width |-> w, height |-> h, hint |-> b.hint]

\* checked_sub(..).unwrap_or(0)
checked_sub_or_zero(a, b) == IF a >= b THEN a - b ELSE 0

\* A plain unsigned subtraction, which the fault below puts in place of the
\* checked one.
SubWrapping(a, b) ==
    [width |-> Wrap(a.width - b.width + Modulus),
     height |-> Wrap(a.height - b.height + Modulus),
     hint |-> a.hint]

\* impl Sub for Bounds
Sub(a, b) ==
    [width |-> checked_sub_or_zero(a.width, b.width),
     height |-> checked_sub_or_zero(a.height, b.height),
     hint |-> a.hint]

\* impl Add for Bounds (value and overflow of the two u32 additions)
Add(a, b) ==
    [width |-> Wrap(a.width + b.width),
     height |-> Wrap(a.height + b.height),
     hint |-> a.hint]
\* impl PartialEq for Bounds: the hint takes no part
eq(self, other) == self.height = other.height /\ self.width = other.width

\* impl PartialOrd for Bounds: equal dimensions are Equal, otherwise the
\* products height * width decide, and a product that is not greater
\* answers Less.
partial_cmp(self, other) ==
    IF self.height = other.height /\ self.width = other.width
    THEN [ordering |-> "Equal", ovf |-> FALSE]
    ELSE LET area_self == Wrap(self.height * self.width)
             area_other == Wrap(other.height * other.width)
         IN  [ordering |-> IF area_self > area_other THEN "Greater" ELSE "Less",
              ovf |-> \/ MulOvf(self.height, self.width)
                      \/ MulOvf(other.height, other.width)]

AddOverflows(a, b) == AddOvf(a.width, b.width) \/ AddOvf(a.height, b.height)

\* --------------------------------------------------------------- Padding
PaddingZero == [left |-> 0, right |-> 0, top |-> 0, bottom |-> 0]

\* Padding::bounds
PaddingBounds(p) == BoundsNew(Wrap(p.left + p.right), Wrap(p.top + p.bottom))
PaddingBoundsOvf(p) == AddOvf(p.left, p.right) \/ AddOvf(p.top, p.bottom)

\* ----------------------------------------------------------------- views
\* Every view is a record of one shape; the fields a kind does not have keep
\* their zero value.  kind is TestView, Spacer, VStack, HStack, Image or
\* Text.
NewView(kind) ==
    [kind |-> kind, id |-> 0, width |-> 0, height |-> 0,
     direction |-> "None", views |-> <<>>, spacing |-> 0,
     align |-> "Start", padding |-> PaddingZero,
     glyphs |-> <<>>, wrap_text |-> FALSE]

\* TestView::new / TestView::monitored
TestView(id, w, h) == [NewView("TestView") EXCEPT !.id = id, !.width = w, !.height = h]

\* Spacer::vertical / Spacer::horizontal
SpacerVertical == [NewView("Spacer") EXCEPT !.direction = "Vertical"]
SpacerHorizontal == [NewView("Spacer") EXCEPT !.direction = "Horizontal"]

\* Image::from_data: the decoded picture is width x height pixels, the
\* padding is zero.  id tells one picture from another.
ImageNew(id, w, h) == [NewView("Image") EXCEPT !.id = id, !.width = w, !.height = h]

\* image_data.get_pixel(img_x, img_y): the colour of a source pixel, kept
\* as the pixel's identity.
get_pixel(v, img_x, img_y) == <<v.id, img_x, img_y>>

\* What the font has for one word of a text: a box of width x height
\* pixels and the opacity of each of them, row by row (the bitmap of
\* rasterize_indexed).
Glyph(w, h, bitmap) == [width |-> w, height |-> h, bitmap |-> bitmap]

\* Text::new: wrap_text is off.  glyphs is what the font has for the text,
\* word by word (nothing for an empty text).
TextNew == NewView("Text")
TextOf(glyphs) == [TextNew EXCEPT !.glyphs = glyphs]

\* VStack::new (HAlign::Left) / HStack::new (VAlign::Top)
VStackNew == [NewView("VStack") EXCEPT !.align = "Left"]
HStackNew == [NewView("HStack") EXCEPT !.align = "Top"]

\* The result of a measurement: the returned Bounds and whether some word
\* operation on the way left the word range.
Measured(w, h, hint, ovf) == [width |-> w, height |-> h, hint |-> hint, ovf |-> ovf]

\* The result of measuring a stack, with what its placement pass computed
\* on the way.
MeasuredStack(w, h, hint, ovf, placements) ==
    [width |-> w, height |-> h, hint |-> hint, ovf |-> ovf, layout |-> placements]

\* Fault: a test view that lets itself be cut down to what it is offered.
TestViewBoundsClamped(v, sb) ==
    Measured(Min(v.width, sb.width), Min(v.height, sb.height), "Optimal", FALSE)

\* impl View for TestView: bounds
TestViewBounds(v, sb) == Measured(v.width, v.height, "Optimal", FALSE)

\* impl View for Image: bounds
ImageBounds(v, sb) ==
    LET sum == Add(BoundsNew(v.width, v.height), PaddingBounds(v.padding))
    IN  Measured(sum.width, sum.height, "Optimal",
                 \/ PaddingBoundsOvf(v.padding)
                 \/ AddOverflows(BoundsNew(v.width, v.height), PaddingBounds(v.padding)))

\* Iterator::max().unwrap_or(0)
RECURSIVE MaxSeq(_)
MaxSeq(s) ==
    IF s = <<>> THEN 0
    ELSE LET m == MaxSeq(Tail(s)) IN IF s[1] > m THEN s[1] ELSE m

\* max_width of the layout settings: None unless the text wraps.
NoMaxWidth == 0 - 1

\* Text::set_up_wrapping: the width left of the suggestion by the padding.
WrapWidth(v, sb) ==
    IF v.wrap_text THEN Sub(sb, PaddingBounds(v.padding)).width ELSE NoMaxWidth

\* layout.append and layout.glyphs(): the boxes are set side by side from
\* (pen_x, pen_y) on, and a box that would cross max_width starts the next
\* line, line_height further down.
RECURSIVE LayoutGlyphs(_, _, _, _, _)
LayoutGlyphs(glyphs, pen_x, pen_y, line_height, max_width) ==
    IF glyphs = <<>> THEN <<>>
    ELSE IF max_width # NoMaxWidth /\ pen_x > 0
            /\ pen_x + Head(glyphs).width > max_width
         THEN LayoutGlyphs(glyphs, 0, pen_y + line_height, line_height, max_width)
         ELSE <<[x |-> pen_x, y |-> pen_y, width |-> Head(glyphs).width,
                 height |-> Head(glyphs).height, bitmap |-> Head(glyphs).bitmap]>>
              \o LayoutGlyphs(Tail(glyphs), pen_x + Head(glyphs).width, pen_y,
                              line_height, max_width)

RECURSIVE GlyphHeights(_)
GlyphHeights(glyphs) ==
    IF glyphs = <<>> THEN <<>>
    ELSE <<Head(glyphs).height>> \o GlyphHeights(Tail(glyphs))

\* The glyphs of a text as Text::bounds and Text::draw get them.
TextLayout(v, sb) ==
    LayoutGlyphs(v.glyphs, 0, 0, MaxSeq(GlyphHeights(v.glyphs)), WrapWidth(v, sb))

\* The loop of Text::bounds from glyph k on: max_x and max_y, and whether
\* an edge left the word range.
RECURSIVE TextExtent(_, _, _, _)
TextExtent(glyphs, k, max_x, max_y) ==
    IF k > Len(glyphs) THEN [max_x |-> max_x, max_y |-> max_y, ovf |-> FALSE]
    ELSE LET right_edge == Wrap(glyphs[k].x + glyphs[k].width)
             bottom_edge == Wrap(glyphs[k].y + glyphs[k].height)
             Join(rest) ==
                 [rest EXCEPT !.ovf = \/ @
                                      \/ AddOvf(glyphs[k].x, glyphs[k].width)
                                      \/ AddOvf(glyphs[k].y, glyphs[k].height)]
         IN  Join(TextExtent(glyphs, k + 1,
                             IF right_edge > max_x THEN right_edge ELSE max_x,
                             IF bottom_edge > max_y THEN bottom_edge ELSE max_y))

\* impl View for Text: bounds
TextBounds(v, sb) ==
    LET p == v.padding
        Padded(e) ==
            Measured(Wrap(e.max_x + Wrap(p.left + p.right)),
                     Wrap(e.max_y + Wrap(p.top + p.bottom)), "Optimal",
                     \/ (v.wrap_text /\ PaddingBoundsOvf(p))
                     \/ e.ovf
                     \/ PaddingBoundsOvf(p)
                     \/ AddOvf(e.max_x, Wrap(p.left + p.right))
                     \/ AddOvf(e.max_y, Wrap(p.top + p.bottom)))
    IN  Padded(TextExtent(TextLayout(v, sb), 1, 0, 0))

\* Fault: the spacer keeps the suggested size on both axes.
SpacerBoundsBothAxes(v, sb) ==
    IF sb.hint = "ZeroSpace"
    THEN Measured(0, 0, "Optimal", FALSE)
    ELSE Measured(sb.width, sb.height, sb.hint, FALSE)

\* impl View for Spacer: bounds
SpacerBounds(v, sb) ==
    IF sb.hint = "ZeroSpace"
    THEN Measured(0, 0, "Optimal", FALSE)
    ELSE IF v.direction = "Vertical"
         THEN Measured(0, sb.height, sb.hint, FALSE)
         ELSE Measured(sb.width, 0, sb.hint, FALSE)

\* The probe suggestion of the flexibility ranking.
ProbeSize == 999

\* flexibility.sort_by(score) is a stable sort: an entry goes behind every
\* entry whose score is not larger.  Entries are (score, view_index).
\* Fault: an entry goes in front of the entries of its own score.
RECURSIVE InsertByScoreBeforeTies(_, _)
InsertByScoreBeforeTies(sorted, e) ==
    IF sorted = <<>> THEN <<e>>
    ELSE IF Head(sorted).score < e.score
         THEN <<Head(sorted)>> \o InsertByScoreBeforeTies(Tail(sorted), e)
         ELSE <<e>> \o sorted

RECURSIVE InsertByScore(_, _)
InsertByScore(sorted, e) ==
    IF sorted = <<>> THEN <<e>>
    ELSE IF Head(sorted).score <= e.score
         THEN <<Head(sorted)>> \o InsertByScore(Tail(sorted), e)
         ELSE <<e>> \o sorted

RECURSIVE SortByScore(_)
SortByScore(entries) ==
    IF entries = <<>> THEN <<>>
    ELSE InsertByScore(SortByScore(SubSeq(entries, 1, Len(entries) - 1)),
                       entries[Len(entries)])

\* u32 sum of a sequence (Iterator::sum), wrapped, and whether it overflowed.
RECURSIVE SumSeq(_)
SumSeq(s) == IF s = <<>> THEN 0 ELSE Wrap(s[1] + SumSeq(Tail(s)))
RECURSIVE SumSeqOvf(_)
SumSeqOvf(s) ==
    IF s = <<>> THEN FALSE
    ELSE SumSeqOvf(Tail(s)) \/ AddOvf(s[1], SumSeq(Tail(s)))

RECURSIVE ViewBounds(_, _)
RECURSIVE placements_and_heights(_, _)
RECURSIVE placements_and_widths(_, _)

\* self.views.iter().map(|v| v.bounds(surface, sb)): every child measured
\* with the same suggestion, in sibling order.
RECURSIVE MeasureAll(_, _)
MeasureAll(views, sb) ==
    IF views = <<>> THEN <<>>
    ELSE <<ViewBounds(Head(views), sb)>> \o MeasureAll(Tail(views), sb)

RECURSIVE WidthsOf(_)
WidthsOf(ms) == IF ms = <<>> THEN <<>> ELSE <<Head(ms).width>> \o WidthsOf(Tail(ms))
RECURSIVE HeightsOf(_)
HeightsOf(ms) == IF ms = <<>> THEN <<>> ELSE <<Head(ms).height>> \o HeightsOf(Tail(ms))
RECURSIVE AnyOvf(_)
AnyOvf(ms) == IF ms = <<>> THEN FALSE ELSE Head(ms).ovf \/ AnyOvf(Tail(ms))

\* temp_heights.iter().find(|h| h.0 == view_index).unwrap().1
SizeOf(steps, view_index) ==
    steps[CHOOSE k \in 1..Len(steps) : steps[k].index = view_index].size

\* -------------------------------------------------------------- VStack
\* Fault: the score only counts whether the child stretches to the
\* infinite probe, not what it does with no space.
VFlexScoreStretchOnly(v) ==
    LET Score(inf, zero, opt) ==
            [score |-> IF inf.height = ProbeSize THEN 6 ELSE 0,
             ovf |-> inf.ovf \/ zero.ovf \/ opt.ovf]
    IN  Score(ViewBounds(v, infinitely_hinted(BoundsNew(ProbeSize, ProbeSize))),
              ViewBounds(v, zero_hinted(BoundsNew(0, 0))),
              ViewBounds(v, optimally_hinted(BoundsNew(ProbeSize, ProbeSize))))

\* The flexibility score of one child (closure of the map in
\* placements_and_heights).
VFlexScore(v) ==
    LET Score(inf, zero, opt) ==
            [score |-> (IF inf.height = ProbeSize THEN 3 ELSE 0)
                       + (IF zero.height = 0 THEN 3 ELSE 0)
                       + (IF zero.height > 0 /\ zero.height < opt.height THEN 2 ELSE 0),
             ovf |-> inf.ovf \/ zero.ovf \/ opt.ovf]
    IN  Score(ViewBounds(v, infinitely_hinted(BoundsNew(ProbeSize, ProbeSize))),
              ViewBounds(v, zero_hinted(BoundsNew(0, 0))),
              ViewBounds(v, optimally_hinted(BoundsNew(ProbeSize, ProbeSize))))

\* The (score, view_index) entries of views i.. in sibling order.
RECURSIVE VFlexibility(_, _)
VFlexibility(views, i) ==
    IF i > Len(views) THEN <<>>
    ELSE LET Entry(f) == [score |-> f.score, index |-> i - 1, ovf |-> f.ovf]
         IN  <<Entry(VFlexScore(views[i]))>> \o VFlexibility(views, i + 1)

\* initial_height_from_views, initial_height and spacing_height.
VInitialHeight(self, sb) ==
    LET n == Len(self.views)
        summed == sb.hint \in {"Optimal", "ZeroSpace"}
        spacing_height == IF n > 0 THEN Wrap((n - 1) * self.spacing) ELSE 0
        room == Wrap(sb.height - spacing_height + Modulus)
        Initial(ms) ==
            LET from_views == IF summed THEN SumSeq(HeightsOf(ms)) ELSE sb.height
                clamped == Min(sb.height, from_views)
            IN  [initial |-> IF clamped > room THEN room ELSE clamped,
                 ovf |-> \/ SumSeqOvf(HeightsOf(ms)) \/ AnyOvf(ms)
                         \/ (n > 0 /\ MulOvf(n - 1, self.spacing))
                         \/ SubOvf(sb.height, spacing_height)]
    IN  Initial(IF summed THEN MeasureAll(self.views, sb) ELSE <<>>)

\* Fault: the budget is not charged for what a child took.
VLeftoverKept(leftover_height, actual_height) ==
    [next |-> leftover_height, ovf |-> FALSE]

\* leftover_height after a child took actual_height, and whether the signed
\* or the unsigned subtraction left its range.
VLeftover(leftover_height, actual_height) ==
    LET l == AsSigned(leftover_height)
        a == AsSigned(actual_height)
        exhausted == SignedSubWrap(l, a) < 0
    IN  [next |-> IF exhausted THEN 0
                  ELSE Wrap(leftover_height - actual_height + Modulus),
         ovf |-> \/ SignedSubOvf(l, a)
                 \/ (~exhausted /\ SubOvf(leftover_height, actual_height))]

\* One iteration of the distribution loop and all the iterations after it.
\* flexibility is the sorted ranking, i the (1-based) position in it.
RECURSIVE VDistribute(_, _, _, _, _)
VDistribute(self, flexibility, sb, i, leftover_height) ==
    IF i > Len(flexibility) THEN [steps |-> <<>>, ovf |-> FALSE]
    ELSE
    LET view_index == flexibility[i].index
        views_left == Len(flexibility) - (i - 1)
        suggestion == leftover_height \div views_left
        Join(m, left, rest) ==
            [steps |-> <<[index |-> view_index, leftover |-> leftover_height,
                          suggestion |-> suggestion, size |-> m.height]>>
                       \o rest.steps,
             ovf |-> m.ovf \/ left.ovf \/ rest.ovf]
        Taken(m, left) ==
            Join(m, left, VDistribute(self, flexibility, sb, i + 1, left.next))
        Measure(m) == Taken(m, VLeftover(leftover_height, m.height))
    IN  Measure(ViewBounds(self.views[view_index + 1], height_adjusted(sb, suggestion)))

\* Fault: the running offset advances by the child's height only, the
\* inter-element spacing is left out.
RECURSIVE VOffsetsNoSpacing(_, _, _, _, _)
VOffsetsNoSpacing(temp_heights, n, spacing, i, y_off) ==
    IF i > n THEN [placements |-> <<>>, ovf |-> FALSE]
    ELSE
    LET height == SizeOf(temp_heights, i - 1)
        rest == VOffsetsNoSpacing(temp_heights, n, spacing, i + 1, Wrap(y_off + height))
    IN  [placements |-> <<[index |-> i - 1, off |-> y_off, size |-> height]>>
                        \o rest.placements,
         ovf |-> AddOvf(y_off, height) \/ rest.ovf]

\* The y_off loop: (view_index, y_off, height) for child i and the children
\* after it.
RECURSIVE VOffsets(_, _, _, _, _)
VOffsets(temp_heights, n, spacing, i, y_off) ==
    IF i > n THEN [placements |-> <<>>, ovf |-> FALSE]
    ELSE
    LET height == SizeOf(temp_heights, i - 1)
        step == Wrap(height + spacing)
        rest == VOffsets(temp_heights, n, spacing, i + 1, Wrap(y_off + step))
    IN  [placements |-> <<[index |-> i - 1, off |-> y_off, size |-> height]>>
                        \o rest.placements,
         ovf |-> AddOvf(height, spacing) \/ AddOvf(y_off, step) \/ rest.ovf]

\* VStack::placements_and_heights
placements_and_heights(self, sb) ==
    LET Placed(flexibility, init, dist) ==
            LET placed == VOffsets(dist.steps, Len(self.views), self.spacing, 1, 0)
            IN  [placements |-> placed.placements,
                 flexibility |-> flexibility,
                 initial |-> init.initial,
                 steps |-> dist.steps,
                 ovf |-> AnyOvf(flexibility) \/ init.ovf \/ dist.ovf \/ placed.ovf]
        Distributed(flexibility, init) ==
            Placed(flexibility, init,
                   VDistribute(self, flexibility, sb, 1, init.initial))
    IN  Distributed(SortByScore(VFlexibility(self.views, 1)), VInitialHeight(self, sb))

\* Fault: a stack without a last placement reports the budget it had for
\* its children instead of (0, 0, 0).
VStackBoundsBudget(self, sb) ==
    LET p == self.padding
        Total(ms, pl) ==
            LET n == Len(self.views)
                unpadded_width == MaxSeq(WidthsOf(ms))
                width == Wrap(Wrap(unpadded_width + p.left) + p.right)
                last_off == IF n = 0 THEN 0 ELSE pl.placements[n].off
                last_size == IF n = 0 THEN pl.initial ELSE pl.placements[n].size
                h1 == Wrap(last_off + last_size)
                h2 == Wrap(h1 + p.top)
                total_height == Wrap(h2 + p.bottom)
            IN  MeasuredStack(width, total_height, "Optimal",
                    \/ AnyOvf(ms)
                    \/ AddOvf(unpadded_width, p.left)
                    \/ AddOvf(Wrap(unpadded_width + p.left), p.right)
                    \/ PaddingBoundsOvf(p)
                    \/ pl.ovf
                    \/ AddOvf(last_off, last_size) \/ AddOvf(h1, p.top)
                    \/ AddOvf(h2, p.bottom),
                    pl)
    IN  Total(MeasureAll(self.views, sb),
              placements_and_heights(self, Sub(sb, PaddingBounds(p))))

\* impl View for VStack: bounds
VStackBounds(self, sb) ==
    LET p == self.padding
        Total(ms, pl) ==
            LET n == Len(self.views)
                unpadded_width == MaxSeq(WidthsOf(ms))
                width == Wrap(Wrap(unpadded_width + p.left) + p.right)
                last_off == IF n = 0 THEN 0 ELSE pl.placements[n].off
                last_size == IF n = 0 THEN 0 ELSE pl.placements[n].size
                h1 == Wrap(last_off + last_size)
                h2 == Wrap(h1 + p.top)
                total_height == Wrap(h2 + p.bottom)
            IN  MeasuredStack(width, total_height, "Optimal",
                    \/ AnyOvf(ms)
                    \/ AddOvf(unpadded_width, p.left)
                    \/ AddOvf(Wrap(unpadded_width + p.left), p.right)
                    \/ PaddingBoundsOvf(p)
                    \/ pl.ovf
                    \/ AddOvf(last_off, last_size) \/ AddOvf(h1, p.top)
                    \/ AddOvf(h2, p.bottom),
                    pl)
    IN  Total(MeasureAll(self.views, sb),
              placements_and_heights(self, Sub(sb, PaddingBounds(p))))

\* -------------------------------------------------------------- HStack
\* The flexibility score of one child (closure of the map in
\* placements_and_widths).
\* Fault: stretching to the infinite probe adds nothing to the score.
HFlexScoreNoStretch(v) ==
    LET Score(inf, zero, opt) ==
            [score |-> (IF zero.width = 0 THEN 3 ELSE 0)
                       + (IF zero.width > 0 /\ zero.width < opt.width THEN 2 ELSE 0),
             ovf |-> inf.ovf \/ zero.ovf \/ opt.ovf]
    IN  Score(ViewBounds(v, infinitely_hinted(BoundsNew(ProbeSize, ProbeSize))),
              ViewBounds(v, zero_hinted(BoundsNew(0, 0))),
              ViewBounds(v, optimally_hinted(BoundsNew(ProbeSize, ProbeSize))))

HFlexScore(v) ==
    LET Score(inf, zero, opt) ==
            [score |-> (IF inf.width = ProbeSize THEN 3 ELSE 0)
                       + (IF zero.width = 0 THEN 3 ELSE 0)
                       + (IF zero.width > 0 /\ zero.width < opt.width THEN 2 ELSE 0),
             ovf |-> inf.ovf \/ zero.ovf \/ opt.ovf]
    IN  Score(ViewBounds(v, infinitely_hinted(BoundsNew(ProbeSize, ProbeSize))),
              ViewBounds(v, zero_hinted(BoundsNew(0, 0))),
              ViewBounds(v, optimally_hinted(BoundsNew(ProbeSize, ProbeSize))))

\* The (score, view_index) entries of views i.. in sibling order.
RECURSIVE HFlexibility(_, _)
HFlexibility(views, i) ==
    IF i > Len(views) THEN <<>>
    ELSE LET Entry(f) == [score |-> f.score, index |-> i - 1, ovf |-> f.ovf]
         IN  <<Entry(HFlexScore(views[i]))>> \o HFlexibility(views, i + 1)

\* initial_width_from_views, initial_width and spacing_width.
HInitialWidth(self, sb) ==
    LET n == Len(self.views)
        summed == sb.hint \in {"Optimal", "ZeroSpace"}
        spacing_width == IF n > 0 THEN Wrap((n - 1) * self.spacing) ELSE 0
        room == Wrap(sb.width - spacing_width + Modulus)
        Initial(ms) ==
            LET from_views == IF summed THEN SumSeq(WidthsOf(ms)) ELSE sb.width
                clamped == Min(sb.width, from_views)
            IN  [initial |-> IF clamped > room THEN room ELSE clamped,
                 ovf |-> \/ SumSeqOvf(WidthsOf(ms)) \/ AnyOvf(ms)
                         \/ (n > 0 /\ MulOvf(n - 1, self.spacing))
                         \/ SubOvf(sb.width, spacing_width)]
    IN  Initial(IF summed THEN MeasureAll(self.views, sb) ELSE <<>>)

\* leftover_width after a child took actual_width, and whether the signed
\* or the unsigned subtraction left its range.
\* Fault: the horizontal budget is not charged for what a child took.
HLeftoverKept(leftover_width, actual_width) ==
    [next |-> leftover_width, ovf |-> FALSE]

HLeftover(leftover_width, actual_width) ==
    LET l == AsSigned(leftover_width)
        a == AsSigned(actual_width)
        exhausted == SignedSubWrap(l, a) < 0
    IN  [next |-> IF exhausted THEN 0
                  ELSE Wrap(leftover_width - actual_width + Modulus),
         ovf |-> \/ SignedSubOvf(l, a)
                 \/ (~exhausted /\ SubOvf(leftover_width, actual_width))]

\* One iteration of the distribution loop and all the iterations after it.
\* flexibility is the sorted ranking, i the (1-based) position in it.
RECURSIVE HDistribute(_, _, _, _, _)
HDistribute(self, flexibility, sb, i, leftover_width) ==
    IF i > Len(flexibility) THEN [steps |-> <<>>, ovf |-> FALSE]
    ELSE
    LET view_index == flexibility[i].index
        views_left == Len(flexibility) - (i - 1)
        suggestion == leftover_width \div views_left
        Join(m, left, rest) ==
            [steps |-> <<[index |-> view_index, leftover |-> leftover_width,
                          suggestion |-> suggestion, size |-> m.width]>>
                       \o rest.steps,
             ovf |-> m.ovf \/ left.ovf \/ rest.ovf]
        Taken(m, left) ==
            Join(m, left, HDistribute(self, flexibility, sb, i + 1, left.next))
        Measure(m) == Taken(m, HLeftover(leftover_width, m.width))
    IN  Measure(ViewBounds(self.views[view_index + 1], width_adjusted(sb, suggestion)))

\* The x_off loop: (view_index, x_off, width) for child i and the children
\* after it.
\* Fault: the running offset advances by the spacing only, the children
\* are laid over each other.
RECURSIVE HOffsetsOverlapping(_, _, _, _, _)
HOffsetsOverlapping(temp_widths, n, spacing, i, x_off) ==
    IF i > n THEN [placements |-> <<>>, ovf |-> FALSE]
    ELSE
    LET width == SizeOf(temp_widths, i - 1)
        rest == HOffsetsOverlapping(temp_widths, n, spacing, i + 1, Wrap(x_off + spacing))
    IN  [placements |-> <<[index |-> i - 1, off |-> x_off, size |-> width]>>
                        \o rest.placements,
         ovf |-> AddOvf(x_off, spacing) \/ rest.ovf]

RECURSIVE HOffsets(_, _, _, _, _)
HOffsets(temp_widths, n, spacing, i, x_off) ==
    IF i > n THEN [placements |-> <<>>, ovf |-> FALSE]
    ELSE
    LET width == SizeOf(temp_widths, i - 1)
        step == Wrap(width + spacing)
        rest == HOffsets(temp_widths, n, spacing, i + 1, Wrap(x_off + step))
    IN  [placements |-> <<[index |-> i - 1, off |-> x_off, size |-> width]>>
                        \o rest.placements,
         ovf |-> AddOvf(width, spacing) \/ AddOvf(x_off, step) \/ rest.ovf]

\* HStack::placements_and_widths
placements_and_widths(self, sb) ==
    LET Placed(flexibility, init, dist) ==
            LET placed == HOffsets(dist.steps, Len(self.views), self.spacing, 1, 0)
            IN  [placements |-> placed.placements,
                 flexibility |-> flexibility,
                 initial |-> init.initial,
                 steps |-> dist.steps,
                 ovf |-> AnyOvf(flexibility) \/ init.ovf \/ dist.ovf \/ placed.ovf]
        Distributed(flexibility, init) ==
            Placed(flexibility, init,
                   HDistribute(self, flexibility, sb, 1, init.initial))
    IN  Distributed(SortByScore(HFlexibility(self.views, 1)), HInitialWidth(self, sb))

\* impl View for HStack: bounds
HStackBounds(self, sb) ==
    LET p == self.padding
        Total(ms, pl) ==
            LET n == Len(self.views)
                unpadded_height == MaxSeq(HeightsOf(ms))
                height == Wrap(Wrap(unpadded_height + p.top) + p.bottom)
                last_off == IF n = 0 THEN 0 ELSE pl.placements[n].off
                last_size == IF n = 0 THEN 0 ELSE pl.placements[n].size
                w1 == Wrap(last_off + last_size)
                w2 == Wrap(w1 + p.left)
                total_width == Wrap(w2 + p.right)
            IN  MeasuredStack(total_width, height, "Optimal",
                    \/ AnyOvf(ms)
                    \/ AddOvf(unpadded_height, p.top)
                    \/ AddOvf(Wrap(unpadded_height + p.top), p.bottom)
                    \/ PaddingBoundsOvf(p)
                    \/ pl.ovf
                    \/ AddOvf(last_off, last_size) \/ AddOvf(w1, p.left)
                    \/ AddOvf(w2, p.right),
                    pl)
    IN  Total(MeasureAll(self.views, sb),
              placements_and_widths(self, Sub(sb, PaddingBounds(p))))

\* View::bounds, dispatched on the kind of the view.
ViewBounds(v, sb) ==
    CASE v.kind = "TestView" -> TestViewBounds(v, sb)
      [] v.kind = "Spacer" -> SpacerBounds(v, sb)
      [] v.kind = "VStack" -> VStackBounds(v, sb)
      [] v.kind = "HStack" -> HStackBounds(v, sb)
      [] v.kind = "Image" -> ImageBounds(v, sb)
      [] v.kind = "Text" -> TextBounds(v, sb)

\* ------------------------------------------------------------------ draw
\* A draw call yields its steps in program order: the View::draw calls it
\* makes on the views below it (what the tests' DrawingRegister records for
\* the monitored ones), what a stack does with its children (its placement
\* pass, the measure call and the draw call of each child), the pixels put
\* on the surface, and the places where a word operation leaves its range.
\* It also yields the overflow flag of all its arithmetic.  path is the
\* chain of sibling indices from the root to the view.
Painted(path, v, x, y, b) ==
    [path |-> path, kind |-> v.kind, id |-> v.id, x |-> x, y |-> y,
     width |-> b.width, height |-> b.height, hint |-> b.hint]

AsBounds(m) == [width |-> m.width, height |-> m.height, hint |-> m.hint]

\* One entry of the trace: ev is "place" (the stack at path ran its
\* placement pass for sb), "measure" (the view at path returned b for sb) or
\* "paint" (draw was called on the view at path with b).
Event(ev, path, sb, b) ==
    [ev |-> ev, path |-> path, sb |-> AsBounds(sb),
     width |-> b.width, height |-> b.height]

\* No placement pass: what a view that is not a stack has to show for one.
NoLayout == [placements |-> <<>>, flexibility |-> <<>>, initial |-> 0,
             steps |-> <<>>, ovf |-> FALSE]

\* One step of a draw call: "call" (entry is the draw call made on a
\* child), "event" (entry is an entry of the trace), "pixel" (entry is the
\* pixel handed to put_pixel) or "overflow" (a word operation left its
\* range: a debug build panics here, a release build goes on).
Step(kind, entry) == [step |-> kind, entry |-> entry]
Mark(ovf) == IF ovf THEN <<Step("overflow", <<>>)>> ELSE <<>>

RECURSIVE EntriesOf(_, _)
EntriesOf(steps, kind) ==
    IF steps = <<>> THEN <<>>
    ELSE (IF Head(steps).step = kind THEN <<Head(steps).entry>> ELSE <<>>)
         \o EntriesOf(Tail(steps), kind)
CallsOf(steps) == EntriesOf(steps, "call")
EventsOf(steps) == EntriesOf(steps, "event")
PixelsOf(steps) == EntriesOf(steps, "pixel")

\* A draw call that does nothing.  layout is what the placement pass of the
\* drawn view itself computed.
NoDraw == [steps |-> <<>>, layout |-> NoLayout, ovf |-> FALSE]

\* The inner loop of Image::draw: row img_y from column img_x on.
RECURSIVE ImageRow(_, _, _, _, _)
ImageRow(v, pad_origin_x, pad_origin_y, img_x, img_y) ==
    IF img_x >= v.width THEN <<>>
    ELSE Mark(AddOvf(pad_origin_x, img_x) \/ AddOvf(pad_origin_y, img_y))
         \o <<Step("pixel",
                   [x |-> Wrap(pad_origin_x + img_x), y |-> Wrap(pad_origin_y + img_y),
                    pixel |-> get_pixel(v, img_x, img_y)])>>
         \o ImageRow(v, pad_origin_x, pad_origin_y, img_x + 1, img_y)

\* The outer loop of Image::draw: the rows from img_y on.
RECURSIVE ImageRows(_, _, _, _)
ImageRows(v, pad_origin_x, pad_origin_y, img_y) ==
    IF img_y >= v.height THEN <<>>
    ELSE ImageRow(v, pad_origin_x, pad_origin_y, 0, img_y)
         \o ImageRows(v, pad_origin_x, pad_origin_y, img_y + 1)

\* impl View for Image: draw.  Both origins are offset by the left padding.
ImageDraw(v, path, x, y, sb) ==
    LET pad_origin_x == Wrap(x + v.padding.left)
        pad_origin_y == Wrap(y + v.padding.left)
        drawn == v.width > 0 /\ v.height > 0
    IN  [steps |-> Mark(AddOvf(x, v.padding.left) \/ AddOvf(y, v.padding.left))
                   \o ImageRows(v, pad_origin_x, pad_origin_y, 0),
         layout |-> NoLayout,
         ovf |-> \/ AddOvf(x, v.padding.left) \/ AddOvf(y, v.padding.left)
                 \/ (drawn /\ AddOvf(pad_origin_x, v.width - 1))
                 \/ (drawn /\ AddOvf(pad_origin_y, v.height - 1))]

\* image::Rgb([0, 0, 0])
Black == <<0, 0, 0>>

\* The two inner loops of Text::draw for one glyph, from bitmap index n
\* (y * width + x) on: the position is computed for every pixel of the box
\* and the pixel is put when its opacity is above 30.
RECURSIVE GlyphDraw(_, _, _, _)
GlyphDraw(glyph, pad_origin_x, pad_origin_y, n) ==
    IF n >= glyph.width * glyph.height THEN <<>>
    ELSE LET x == n % glyph.width
             y == n \div glyph.width
             pixel_x == Wrap(Wrap(glyph.x + x) + pad_origin_x)
             pixel_y == Wrap(Wrap(glyph.y + y) + pad_origin_y)
         IN  Mark(\/ AddOvf(glyph.x, x) \/ AddOvf(Wrap(glyph.x + x), pad_origin_x)
                  \/ AddOvf(glyph.y, y) \/ AddOvf(Wrap(glyph.y + y), pad_origin_y))
             \o (IF glyph.bitmap[n + 1] > 30
                 THEN <<Step("pixel", [x |-> pixel_x, y |-> pixel_y, pixel |-> Black])>>
                 ELSE <<>>)
             \o GlyphDraw(glyph, pad_origin_x, pad_origin_y, n + 1)

\* The glyph loop of Text::draw from glyph k on.
RECURSIVE GlyphsDraw(_, _, _, _)
GlyphsDraw(glyphs, pad_origin_x, pad_origin_y, k) ==
    IF k > Len(glyphs) THEN <<>>
    ELSE GlyphDraw(glyphs[k], pad_origin_x, pad_origin_y, 0)
         \o GlyphsDraw(glyphs, pad_origin_x, pad_origin_y, k + 1)

RECURSIVE HasOverflow(_)
HasOverflow(steps) ==
    steps # <<>> /\ (Head(steps).step = "overflow" \/ HasOverflow(Tail(steps)))

\* impl View for Text: draw
TextDraw(v, path, origin_x, origin_y, sb) ==
    LET pad_origin_x == Wrap(origin_x + v.padding.left)
        pad_origin_y == Wrap(origin_y + v.padding.top)
        Drawn(steps) == [steps |-> steps, layout |-> NoLayout, ovf |-> HasOverflow(steps)]
    IN  Drawn(Mark(v.wrap_text /\ PaddingBoundsOvf(v.padding))
              \o Mark(AddOvf(origin_x, v.padding.left) \/ AddOvf(origin_y, v.padding.top))
              \o GlyphsDraw(TextLayout(v, sb), pad_origin_x, pad_origin_y, 1))

\* Fault: a spacer marks its origin on the surface.
SpacerDrawMarking(v, path, x, y, sb) ==
    [NoDraw EXCEPT !.steps = <<Step("pixel", [x |-> x, y |-> y, pixel |-> <<0, 0, 0>>])>>]

\* impl View for Spacer: draw.  The body is empty.
SpacerDraw(v, path, x, y, sb) == NoDraw

\* impl View for TestView: draw.  It registers the call (the log entry its
\* parent's loop writes) and touches no pixel.
TestViewDraw(v, path, x, y, sb) == NoDraw

RECURSIVE ViewDraw(_, _, _, _, _)

\* Fault: the child is drawn with the bounds it was placed with, not with
\* the bounds it returned for them.
RECURSIVE VDrawLoopPlacedBounds(_, _, _, _, _, _, _, _, _)
VDrawLoopPlacedBounds(self, path, x, y, sb, max_x, placement_bounds, placements, i) ==
    IF i > Len(self.views) THEN NoDraw
    ELSE
    LET view == self.views[i]
        placement == placements[i]
        p == self.padding
        placed_bounds == copy_hint(sb, placement_bounds.width, placement.size)
        view_y == Wrap(Wrap(y + p.top) + placement.off)
        y_ovf == AddOvf(y, p.top) \/ AddOvf(Wrap(y + p.top), placement.off)
        ViewX(child_bounds) ==
            CASE self.align = "Left" -> Wrap(x + p.left)
              [] self.align = "Right" -> Wrap(max_x - child_bounds.width + Modulus)
              [] self.align = "Center" ->
                    Wrap(Wrap(x + p.left)
                         + Wrap(sb.width - child_bounds.width + Modulus) \div 2)
        XOvf(child_bounds) ==
            CASE self.align = "Left" -> AddOvf(x, p.left)
              [] self.align = "Right" -> SubOvf(max_x, child_bounds.width)
              [] self.align = "Center" ->
                    \/ AddOvf(x, p.left)
                    \/ SubOvf(sb.width, child_bounds.width)
                    \/ AddOvf(Wrap(x + p.left),
                              Wrap(sb.width - child_bounds.width + Modulus) \div 2)
        Join(child_bounds, view_x, drawn, rest) ==
            [steps |-> Mark(child_bounds.ovf)
                       \o <<Step("event", Event("measure", path \o <<i - 1>>,
                                                placed_bounds, child_bounds))>>
                       \o Mark(XOvf(child_bounds) \/ y_ovf)
                       \o <<Step("call", Painted(path \o <<i - 1>>, view, view_x, view_y,
                                                 placed_bounds)),
                            Step("event", Event("paint", path \o <<i - 1>>,
                                                placed_bounds, placed_bounds))>>
                       \o drawn.steps \o rest.steps,
             ovf |-> child_bounds.ovf \/ XOvf(child_bounds) \/ y_ovf
                     \/ drawn.ovf \/ rest.ovf]
        DrawAt(child_bounds, view_x) ==
            Join(child_bounds, view_x,
                 ViewDraw(view, path \o <<i - 1>>, view_x, view_y, placed_bounds),
                 VDrawLoopPlacedBounds(self, path, x, y, sb, max_x, placement_bounds, placements, i + 1))
        Place(child_bounds) == DrawAt(child_bounds, ViewX(child_bounds))
    IN  Place(ViewBounds(view, placed_bounds))

\* The body of the child loop of VStack::draw for child i and the children
\* after it.
RECURSIVE VDrawLoop(_, _, _, _, _, _, _, _, _)
VDrawLoop(self, path, x, y, sb, max_x, placement_bounds, placements, i) ==
    IF i > Len(self.views) THEN NoDraw
    ELSE
    LET view == self.views[i]
        placement == placements[i]
        p == self.padding
        placed_bounds == copy_hint(sb, placement_bounds.width, placement.size)
        view_y == Wrap(Wrap(y + p.top) + placement.off)
        y_ovf == AddOvf(y, p.top) \/ AddOvf(Wrap(y + p.top), placement.off)
        ViewX(child_bounds) ==
            CASE self.align = "Left" -> Wrap(x + p.left)
              [] self.align = "Right" -> Wrap(max_x - child_bounds.width + Modulus)
              [] self.align = "Center" ->
                    Wrap(Wrap(x + p.left)
                         + Wrap(sb.width - child_bounds.width + Modulus) \div 2)
        XOvf(child_bounds) ==
            CASE self.align = "Left" -> AddOvf(x, p.left)
              [] self.align = "Right" -> SubOvf(max_x, child_bounds.width)
              [] self.align = "Center" ->
                    \/ AddOvf(x, p.left)
                    \/ SubOvf(sb.width, child_bounds.width)
                    \/ AddOvf(Wrap(x + p.left),
                              Wrap(sb.width - child_bounds.width + Modulus) \div 2)
        Join(child_bounds, view_x, drawn, rest) ==
            [steps |-> Mark(child_bounds.ovf)
                       \o <<Step("event", Event("measure", path \o <<i - 1>>,
                                                placed_bounds, child_bounds))>>
                       \o Mark(XOvf(child_bounds) \/ y_ovf)
                       \o <<Step("call", Painted(path \o <<i - 1>>, view, view_x, view_y,
                                                 child_bounds)),
                            Step("event", Event("paint", path \o <<i - 1>>,
                                                child_bounds, child_bounds))>>
                       \o drawn.steps \o rest.steps,
             ovf |-> child_bounds.ovf \/ XOvf(child_bounds) \/ y_ovf
                     \/ drawn.ovf \/ rest.ovf]
        DrawAt(child_bounds, view_x) ==
            Join(child_bounds, view_x,
                 ViewDraw(view, path \o <<i - 1>>, view_x, view_y, AsBounds(child_bounds)),
                 VDrawLoop(self, path, x, y, sb, max_x, placement_bounds, placements, i + 1))
        Place(child_bounds) == DrawAt(child_bounds, ViewX(child_bounds))
    IN  Place(ViewBounds(view, placed_bounds))

\* Fault: the children are drawn before the placement pass has run.
VStackDrawPlacingLast(self, path, x, y, sb) ==
    LET p == self.padding
        m1 == Wrap(x + sb.width)
        m2 == Wrap(m1 - p.left + Modulus)
        max_x == Wrap(m2 - p.right + Modulus)
        placement_bounds == Sub(sb, PaddingBounds(p))
        Join(pl, loop) ==
            [steps |-> Mark(\/ AddOvf(x, sb.width) \/ SubOvf(m1, p.left) \/ SubOvf(m2, p.right)
                            \/ PaddingBoundsOvf(p) \/ pl.ovf)
                       \o loop.steps
                       \o <<Step("event", Event("place", path, placement_bounds, sb))>>,
             layout |-> pl,
             ovf |-> \/ AddOvf(x, sb.width) \/ SubOvf(m1, p.left) \/ SubOvf(m2, p.right)
                     \/ PaddingBoundsOvf(p) \/ pl.ovf \/ loop.ovf]
        Loop(pl) ==
            Join(pl, VDrawLoop(self, path, x, y, sb, max_x, placement_bounds,
                               pl.placements, 1))
    IN  Loop(placements_and_heights(self, placement_bounds))

\* Fault: the placement pass of draw runs under the Optimal hint whatever
\* hint the suggestion carries.
VStackDrawOptimal(self, path, x, y, sb) ==
    LET p == self.padding
        m1 == Wrap(x + sb.width)
        m2 == Wrap(m1 - p.left + Modulus)
        max_x == Wrap(m2 - p.right + Modulus)
        placement_bounds == Sub(sb, PaddingBounds(p))
        Join(pl, loop) ==
            [steps |-> Mark(\/ AddOvf(x, sb.width) \/ SubOvf(m1, p.left) \/ SubOvf(m2, p.right)
                            \/ PaddingBoundsOvf(p) \/ pl.ovf)
                       \o <<Step("event", Event("place", path, placement_bounds, sb))>>
                       \o loop.steps,
             layout |-> pl,
             ovf |-> \/ AddOvf(x, sb.width) \/ SubOvf(m1, p.left) \/ SubOvf(m2, p.right)
                     \/ PaddingBoundsOvf(p) \/ pl.ovf \/ loop.ovf]
        Loop(pl) ==
            Join(pl, VDrawLoop(self, path, x, y, sb, max_x, placement_bounds,
                               pl.placements, 1))
    IN  Loop(placements_and_heights(self, optimally_hinted(placement_bounds)))

\* impl View for VStack: draw
VStackDraw(self, path, x, y, sb) ==
    LET p == self.padding
        m1 == Wrap(x + sb.width)
        m2 == Wrap(m1 - p.left + Modulus)
        max_x == Wrap(m2 - p.right + Modulus)
        placement_bounds == Sub(sb, PaddingBounds(p))
        Join(pl, loop) ==
            [steps |-> Mark(\/ AddOvf(x, sb.width) \/ SubOvf(m1, p.left) \/ SubOvf(m2, p.right)
                            \/ PaddingBoundsOvf(p) \/ pl.ovf)
                       \o <<Step("event", Event("place", path, placement_bounds, sb))>>
                       \o loop.steps,
             layout |-> pl,
             ovf |-> \/ AddOvf(x, sb.width) \/ SubOvf(m1, p.left) \/ SubOvf(m2, p.right)
                     \/ PaddingBoundsOvf(p) \/ pl.ovf \/ loop.ovf]
        Loop(pl) ==
            Join(pl, VDrawLoop(self, path, x, y, sb, max_x, placement_bounds,
                               pl.placements, 1))
    IN  Loop(placements_and_heights(self, placement_bounds))

\* The body of the child loop of HStack::draw for child i and the children
\* after it.
RECURSIVE HDrawLoop(_, _, _, _, _, _, _, _, _)
HDrawLoop(self, path, x, y, sb, max_y, placement_bounds, placements, i) ==
    IF i > Len(self.views) THEN NoDraw
    ELSE
    LET view == self.views[i]
        placement == placements[i]
        p == self.padding
        placed_bounds == copy_hint(sb, placement.size, placement_bounds.height)
        view_x == Wrap(Wrap(x + p.left) + placement.off)
        x_ovf == AddOvf(x, p.left) \/ AddOvf(Wrap(x + p.left), placement.off)
        ViewY(child_bounds) ==
            CASE self.align = "Top" -> Wrap(y + p.top)
              [] self.align = "Bottom" -> Wrap(max_y - child_bounds.height + Modulus)
              [] self.align = "Center" ->
                    Wrap(Wrap(y + p.top)
                         + Wrap(sb.height - child_bounds.height + Modulus) \div 2)
        YOvf(child_bounds) ==
            CASE self.align = "Top" -> AddOvf(y, p.top)
              [] self.align = "Bottom" -> SubOvf(max_y, child_bounds.height)
              [] self.align = "Center" ->
                    \/ AddOvf(y, p.top)
                    \/ SubOvf(sb.height, child_bounds.height)
                    \/ AddOvf(Wrap(y + p.top),
                              Wrap(sb.height - child_bounds.height + Modulus) \div 2)
        Join(child_bounds, view_y, drawn, rest) ==
            [steps |-> Mark(child_bounds.ovf)
                       \o <<Step("event", Event("measure", path \o <<i - 1>>,
                                                placed_bounds, child_bounds))>>
                       \o Mark(YOvf(child_bounds) \/ x_ovf)
                       \o <<Step("call", Painted(path \o <<i - 1>>, view, view_x, view_y,
                                                 child_bounds)),
                            Step("event", Event("paint", path \o <<i - 1>>,
                                                child_bounds, child_bounds))>>
                       \o drawn.steps \o rest.steps,
             ovf |-> child_bounds.ovf \/ x_ovf \/ YOvf(child_bounds)
                     \/ drawn.ovf \/ rest.ovf]
        DrawAt(child_bounds, view_y) ==
            Join(child_bounds, view_y,
                 ViewDraw(view, path \o <<i - 1>>, view_x, view_y, AsBounds(child_bounds)),
                 HDrawLoop(self, path, x, y, sb, max_y, placement_bounds, placements, i + 1))
        Place(child_bounds) == DrawAt(child_bounds, ViewY(child_bounds))
    IN  Place(ViewBounds(view, placed_bounds))

\* Fault: the child loop starts at the second child.
HStackDrawFromSecond(self, path, x, y, sb) ==
    LET p == self.padding
        m1 == Wrap(y + sb.height)
        m2 == Wrap(m1 - p.top + Modulus)
        max_y == Wrap(m2 - p.bottom + Modulus)
        placement_bounds == Sub(sb, PaddingBounds(p))
        Join(pl, loop) ==
            [steps |-> Mark(\/ AddOvf(y, sb.height) \/ SubOvf(m1, p.top) \/ SubOvf(m2, p.bottom)
                            \/ PaddingBoundsOvf(p) \/ pl.ovf)
                       \o <<Step("event", Event("place", path, placement_bounds, sb))>>
                       \o loop.steps,
             layout |-> pl,
             ovf |-> \/ AddOvf(y, sb.height) \/ SubOvf(m1, p.top) \/ SubOvf(m2, p.bottom)
                     \/ PaddingBoundsOvf(p) \/ pl.ovf \/ loop.ovf]
        Loop(pl) ==
            Join(pl, HDrawLoop(self, path, x, y, sb, max_y, placement_bounds,
                               pl.placements, 2))
    IN  Loop(placements_and_widths(self, placement_bounds))

\* impl View for HStack: draw
HStackDraw(self, path, x, y, sb) ==
    LET p == self.padding
        m1 == Wrap(y + sb.height)
        m2 == Wrap(m1 - p.top + Modulus)
        max_y == Wrap(m2 - p.bottom + Modulus)
        placement_bounds == Sub(sb, PaddingBounds(p))
        Join(pl, loop) ==
            [steps |-> Mark(\/ AddOvf(y, sb.height) \/ SubOvf(m1, p.top) \/ SubOvf(m2, p.bottom)
                            \/ PaddingBoundsOvf(p) \/ pl.ovf)
                       \o <<Step("event", Event("place", path, placement_bounds, sb))>>
                       \o loop.steps,
             layout |-> pl,
             ovf |-> \/ AddOvf(y, sb.height) \/ SubOvf(m1, p.top) \/ SubOvf(m2, p.bottom)
                     \/ PaddingBoundsOvf(p) \/ pl.ovf \/ loop.ovf]
        Loop(pl) ==
            Join(pl, HDrawLoop(self, path, x, y, sb, max_y, placement_bounds,
                               pl.placements, 1))
    IN  Loop(placements_and_widths(self, placement_bounds))

\* View::draw, dispatched on the kind of the view.  TestView::draw only
\* registers the call and Spacer::draw does nothing: neither calls draw on
\* another view nor touches the surface.
ViewDraw(v, path, x, y, sb) ==
    CASE v.kind = "VStack" -> VStackDraw(v, path, x, y, sb)
      [] v.kind = "HStack" -> HStackDraw(v, path, x, y, sb)
      [] v.kind = "Image" -> ImageDraw(v, path, x, y, sb)
      [] v.kind = "Text" -> TextDraw(v, path, x, y, sb)
      [] v.kind = "TestView" -> TestViewDraw(v, path, x, y, sb)
      [] v.kind = "Spacer" -> SpacerDraw(v, path, x, y, sb)

\* --------------------------------------------------------- state machine
\* The caller owns one root element (a stack in most runs) and one surface.
\* It is either between two calls (call.op = "none") and may change the
\* element or call it, or it holds what the last call produced and goes on
\* (Continue, Keep).  The element is built before the surface is painted
\* and before the caller keeps results to compare.
VARIABLES
    stack,      \* the root element the caller builds and then measures or draws
    call,       \* the last operation called and its arguments
    outcome,    \* "none", "ok", "panic" or "wrapped"
    result,     \* the Bounds a returned call produced
    layout,     \* what the root's placement pass computed during the call
    log,        \* the draw calls made below the root, in call order
    trace,      \* what the stacks did during the last draw call, in program
                \* order; between calls, the padding calls made so far
    canvas,     \* surface.img: the pixels put so far (all others are white)
    seen        \* the results of earlier calls the caller has kept

vars == <<stack, call, outcome, result, layout, log, trace, canvas, seen>>

\* Overflow checks are on in a debug build (the call panics at the first
\* word operation that leaves its range) and off in a release build (the
\* call goes on with the wrapped value).
Builds == {"debug", "release"}
Outcome(b, ovf) == IF ~ovf THEN "ok" ELSE IF b = "debug" THEN "panic" ELSE "wrapped"

Edges == {"Left", "Right", "Top", "Bottom"}

NoBounds == BoundsNew(0, 0)
NoCall == [op |-> "none", x |-> 0, y |-> 0, sb |-> NoBounds, rhs |-> NoBounds]

\* surface.img.put_pixel for each of the pixels in turn: a pixel put later
\* replaces what was at its position.
RECURSIVE PutPixels(_, _)
PutPixels(img, pixels) ==
    IF pixels = <<>> THEN img
    ELSE PutPixels({c \in img : c.x # Head(pixels).x \/ c.y # Head(pixels).y}
                       \cup {Head(pixels)},
                   Tail(pixels))

\* Surface::new(500, 500): every pixel is white.
SurfaceWidth == 500
SurfaceHeight == 500
White == {}

\* put_pixel panics on a position that is not on the surface.
OutOfSurface(pixel) == pixel.x >= SurfaceWidth \/ pixel.y >= SurfaceHeight

\* The steps of a draw call that the build b runs: all of them, or those
\* before the panic (an overflow in a debug build, a pixel off the surface
\* in either build).
RECURSIVE Ran(_, _)
Ran(steps, b) ==
    IF steps = <<>> THEN <<>>
    ELSE IF \/ (Head(steps).step = "overflow" /\ b = "debug")
            \/ (Head(steps).step = "pixel" /\ OutOfSurface(Head(steps).entry))
         THEN <<>>
         ELSE <<Head(steps)>> \o Ran(Tail(steps), b)

IsStack(v) == v.kind \in {"VStack", "HStack"}

Idle == call.op = "none"

\* A new element and Surface::new()
InitElement(elements) ==
    /\ stack \in elements
    /\ call = NoCall
    /\ outcome = "none"
    /\ result = NoBounds
    /\ layout = NoLayout
    /\ log = <<>>
    /\ trace = <<>>
    /\ canvas = White
    /\ seen = <<>>

\* VStack::new() or HStack::new()
InitWith(kinds) ==
    InitElement({IF k = "VStack" THEN VStackNew ELSE HStackNew : k \in kinds})

\* The element may still be changed: nothing was painted and no result is
\* kept for comparison.
Building == Idle /\ canvas = White /\ seen = <<>>

\* The caller is done with what the last call produced.
Continue ==
    /\ ~Idle
    /\ call' = NoCall
    /\ outcome' = "none"
    /\ result' = NoBounds
    /\ layout' = NoLayout
    /\ log' = <<>>
    /\ trace' = <<>>
    /\ UNCHANGED <<stack, canvas, seen>>

\* stack.views.push(Box::new(v))
Push(pool) ==
    /\ Building
    /\ IsStack(stack)
    /\ Len(stack.views) < MaxViews
    /\ \E v \in pool : stack' = [stack EXCEPT !.views = Append(@, v)]
    /\ UNCHANGED <<call, outcome, result, layout, log, trace, canvas, seen>>

\* stack.spacing = s
SetSpacing(spacings) ==
    /\ Building
    /\ IsStack(stack)
    /\ \E s \in spacings : s # stack.spacing /\ stack' = [stack EXCEPT !.spacing = s]
    /\ UNCHANGED <<call, outcome, result, layout, log, trace, canvas, seen>>

HAligns == {"Left", "Center", "Right"}
VAligns == {"Top", "Center", "Bottom"}

\* stack.align = a
SetAlign ==
    /\ Building
    /\ IsStack(stack)
    /\ \E a \in (IF stack.kind = "VStack" THEN HAligns ELSE VAligns) :
          a # stack.align /\ stack' = [stack EXCEPT !.align = a]
    /\ UNCHANGED <<call, outcome, result, layout, log, trace, canvas, seen>>

\* Fault: the new padding starts from zero, not from padding_data().
WithPaddingResetting(p, edge, size) ==
    CASE edge = "Left" -> [PaddingZero EXCEPT !.left = size]
      [] edge = "Right" -> [PaddingZero EXCEPT !.right = size]
      [] edge = "Top" -> [PaddingZero EXCEPT !.top = size]
      [] edge = "Bottom" -> [PaddingZero EXCEPT !.bottom = size]

\* View::padding(edge, size): padding_data, one edge replaced,
\* set_padding_data.
WithPadding(p, edge, size) ==
    CASE edge = "Left" -> [p EXCEPT !.left = size]
      [] edge = "Right" -> [p EXCEPT !.right = size]
      [] edge = "Top" -> [p EXCEPT !.top = size]
      [] edge = "Bottom" -> [p EXCEPT !.bottom = size]

\* A Spacer has no padding field: its padding_data is Padding::zero() and
\* its set_padding_data does nothing.
OwnsPadding(v) == v.kind # "Spacer"

\* stack.padding(edge, size)
SetPadding(sizes) ==
    /\ Building
    /\ \E edge \in Edges, size \in sizes :
          stack' = IF OwnsPadding(stack)
                   THEN [stack EXCEPT !.padding = WithPadding(@, edge, size)]
                   ELSE stack
    /\ UNCHANGED <<call, outcome, result, layout, log, trace, canvas, seen>>

\* view.padding(edge, size), with the caller keeping the list of the calls
\* it made.
MaxPaddingCalls == 3
PaddingCall(sizes) ==
    /\ Building
    /\ Len(trace) < MaxPaddingCalls
    /\ \E edge \in Edges, size \in sizes :
          /\ stack' = IF OwnsPadding(stack)
                      THEN [stack EXCEPT !.padding = WithPadding(@, edge, size)]
                      ELSE stack
          /\ trace' = Append(trace, [edge |-> edge, size |-> size])
    /\ UNCHANGED <<call, outcome, result, layout, log, canvas, seen>>

\* stack.bounds(&surface, sb)
Bounds(suggestions) ==
    /\ Idle
    /\ \E sb \in suggestions, b \in Builds :
        LET Return(m, o) ==
                /\ call' = [NoCall EXCEPT !.op = "bounds", !.sb = sb]
                /\ outcome' = o
                /\ result' = IF o = "panic" THEN NoBounds ELSE AsBounds(m)
                /\ layout' = IF o = "panic" \/ ~IsStack(stack) THEN NoLayout
                              ELSE m.layout
                /\ log' = <<>>
                /\ trace' = <<>>
            Measure(m) == Return(m, Outcome(b, m.ovf))
        IN  Measure(ViewBounds(stack, sb))
    /\ UNCHANGED <<stack, canvas, seen>>

\* stack.draw(&mut surface, x, y, sb).  A call that panics has made the
\* draw calls and put the pixels that come before the panic.
Draw(origins, suggestions) ==
    /\ Idle
    /\ \E org \in origins, sb \in suggestions, b \in Builds :
        LET Return(d, ran, o) ==
                /\ call' = [NoCall EXCEPT !.op = "draw", !.x = org[1], !.y = org[2],
                                          !.sb = sb]
                /\ outcome' = o
                /\ result' = NoBounds
                /\ layout' = IF o = "panic" THEN NoLayout ELSE d.layout
                /\ log' = CallsOf(ran)
                /\ trace' = EventsOf(ran)
                /\ canvas' = PutPixels(canvas, PixelsOf(ran))
            Stopped(d, ran) ==
                Return(d, ran, IF Len(ran) < Len(d.steps) THEN "panic"
                               ELSE Outcome(b, d.ovf))
            Drawn(d) == Stopped(d, Ran(d.steps, b))
        IN  Drawn(ViewDraw(stack, <<>>, org[1], org[2], sb))
    /\ UNCHANGED <<stack, seen>>

\* The caller keeps what a measure call returned, to compare later calls
\* with it: the suggestion, the returned size and the placements.
MaxKept == 2
Kept == [sb |-> call.sb, width |-> result.width, height |-> result.height,
         placements |-> layout.placements]
Keep ==
    /\ call.op = "bounds"
    /\ outcome # "panic"
    /\ Len(seen) < MaxKept
    /\ \A k \in 1..Len(seen) : seen[k].sb # call.sb
    /\ seen' = Append(seen, Kept)
    /\ call' = NoCall
    /\ outcome' = "none"
    /\ result' = NoBounds
    /\ layout' = NoLayout
    /\ UNCHANGED <<stack, log, trace, canvas>>

\* The caller takes a new surface for the next picture.
NewSurface ==
    /\ Idle
    /\ canvas' = White
    /\ UNCHANGED <<stack, call, outcome, result, layout, log, trace, seen>>

\* a - b on two Bounds values
Subtract(operands) ==
    /\ Idle
    /\ \E a \in operands, b \in operands :
        /\ call' = [NoCall EXCEPT !.op = "sub", !.sb = a, !.rhs = b]
        /\ outcome' = "ok"
        /\ result' = Sub(a, b)
    /\ UNCHANGED <<stack, layout, log, trace, canvas, seen>>

\* a.partial_cmp(&b) on two Bounds values
Compare(operands) ==
    /\ Idle
    /\ \E a \in operands, b \in operands, bd \in Builds :
        LET Return(c, o) ==
                /\ call' = [NoCall EXCEPT !.op = "cmp", !.sb = a, !.rhs = b]
                /\ outcome' = o
                /\ result' = IF o = "panic" THEN NoBounds
                              ELSE [ordering |-> c.ordering]
            Answer(c) == Return(c, Outcome(bd, c.ovf))
        IN  Answer(partial_cmp(a, b))
    /\ UNCHANGED <<stack, layout, log, trace, canvas, seen>>

\* ------------------------------------------------- measuring a built stack
\* The views a caller pushes: two fixed-size test views and the spacer that
\* flexes along the main axis of the stack.
MainSpacer == IF stack.kind = "VStack" THEN SpacerVertical ELSE SpacerHorizontal
ViewPool == {TestView(1, 50, 100), TestView(2, 150, 15), MainSpacer}
Spacings == {0, 5}
PaddingSizes == {0, 7}
Sizes == {<<0, 0>>, <<3, 4>>, <<50, 60>>, <<400, 300>>}
Suggestions == {[width |-> s[1], height |-> s[2], hint |-> h] : s \in Sizes, h \in Hints}

Init == InitWith({"VStack", "HStack"})

Next ==
    \/ Push(ViewPool)
    \/ SetSpacing(Spacings)
    \/ SetPadding(PaddingSizes)
    \/ Bounds(Suggestions)
    \/ Continue

Spec == Init /\ [][Next]_vars

\* ------------------------------------------------- subtracting two Bounds
Words == {0, 1, 50, Half, Modulus - 1}
Operands == {[width |-> w, height |-> h, hint |-> t] : w \in Words, h \in Words, t \in Hints}

InitSub == InitWith({"VStack"})
NextSub == Subtract(Operands) \/ Continue
SpecSub == InitSub /\ [][NextSub]_vars

\* ------------------------------------------------- comparing two Bounds
CmpWords == {0, 2, 3, Half, Modulus - 1}
CmpOperands ==
    {[width |-> w, height |-> h, hint |-> t] :
        w \in CmpWords, h \in CmpWords, t \in {"Optimal", "InfiniteSpace"}}

InitCmp == InitWith({"VStack"})
NextCmp == Compare(CmpOperands) \/ Continue
SpecCmp == InitCmp /\ [][NextCmp]_vars

\* ------------------------------------------------- drawing a built stack
\* A caller pushes fixed-size test views, picks the alignment and the
\* padding, and draws the stack at an origin, with room for the views or
\* with less.
DrawPool == {TestView(1, 50, 100), TestView(2, 150, 15)}
Origins == {<<0, 0>>, <<100, 100>>}
DrawSizes == {<<40, 10>>, <<400, 300>>, <<500, 500>>}
DrawSuggestions == {[width |-> s[1], height |-> s[2], hint |-> h] : s \in DrawSizes, h \in Hints}

InitDraw == InitWith({"VStack", "HStack"})
NextDraw ==
    \/ Push(DrawPool)
    \/ SetAlign
    \/ SetPadding(PaddingSizes)
    \/ Draw(Origins, DrawSuggestions)
    \/ Continue
SpecDraw == InitDraw /\ [][NextDraw]_vars

\* ------------------------------------------------- stacks inside a stack
\* A caller pushes stacks of the root's own kind, built beforehand from two
\* fixed-size views and a spacer, next to a fixed-size view and a bare
\* spacer, and measures the root or draws it at the origin.
InnerStack(views, spacing) ==
    [(IF stack.kind = "VStack" THEN VStackNew ELSE HStackNew)
        EXCEPT !.views = views, !.spacing = spacing]
SpacerBetween == <<TestView(1, 50, 50), MainSpacer, TestView(2, 80, 80)>>
SpacerFirst == <<MainSpacer, TestView(1, 50, 50)>>
NestedPool == {InnerStack(SpacerBetween, 0), InnerStack(SpacerBetween, 5),
               InnerStack(SpacerFirst, 0), TestView(3, 100, 100), MainSpacer}
NestedSizes == {<<400, 400>>, <<120, 120>>}
NestedSuggestions ==
    {[width |-> s[1], height |-> s[2], hint |-> h] : s \in NestedSizes, h \in Hints}

InitNested == InitWith({"VStack", "HStack"})
NextNested ==
    \/ Push(NestedPool)
    \/ Bounds(NestedSuggestions)
    \/ Draw({<<0, 0>>}, NestedSuggestions)
    \/ Continue
SpecNested == InitNested /\ [][NextNested]_vars

\* ------------------------------------------------- drawing an image
\* A caller decodes a picture of 2 x 2 pixels, sets its padding, and
\* measures it or draws it on the surface: at the origin, further in, or
\* across the right border.
Picture == ImageNew(1, 2, 2)
ImagePaddingSizes == {0, 3, 7}
ImageOrigins == {<<0, 0>>, <<100, 100>>, <<499, 0>>}
ImageSizes == {<<400, 300>>}
ImageSuggestions ==
    {[width |-> s[1], height |-> s[2], hint |-> h] : s \in ImageSizes, h \in Hints}

\* A text of two words: the font has a box of 2 x 2 pixels, two of them
\* opaque enough to be put, and a box of 1 x 2 pixels for them.  The
\* caller measures and draws it too, with and without wrapping, also with
\* a suggestion too narrow for the two words side by side.
Headline == TextOf(<<Glyph(2, 2, <<255, 0, 30, 31>>), Glyph(1, 2, <<200, 200>>)>>)
WrappedHeadline == [Headline EXCEPT !.wrap_text = TRUE]
NarrowSuggestions ==
    {[width |-> 2, height |-> 300, hint |-> h] : h \in {"Optimal"}}

InitImage == InitElement({Picture, Headline, WrappedHeadline})
NextImage ==
    \/ SetPadding(ImagePaddingSizes)
    \/ Bounds(ImageSuggestions \cup NarrowSuggestions)
    \/ Draw(ImageOrigins, ImageSuggestions \cup NarrowSuggestions)
    \/ Continue
    \/ NewSurface
SpecImage == InitImage /\ [][NextImage]_vars

\* ------------------------------------------------- calling a stack again
\* A caller builds a stack, with or without padding, then measures it with
\* one suggestion after the other, keeps some of the results, and draws it.
RepeatSuggestions ==
    {optimally_hinted(BoundsNew(50, 60)), optimally_hinted(BoundsNew(400, 300)),
     zero_hinted(BoundsNew(400, 300)), infinitely_hinted(BoundsNew(400, 300))}

\* v.padding(Edge::Left, 7); v.padding(Edge::Top, 7): the other edges stay
\* as they are, and a Spacer stays without padding.
Framed(v) ==
    IF OwnsPadding(v)
    THEN [v EXCEPT !.padding = WithPadding(WithPadding(@, "Left", 7), "Top", 7)]
    ELSE v

InitRepeat == InitElement({VStackNew, HStackNew, Framed(VStackNew), Framed(HStackNew)})
NextRepeat ==
    \/ Push(ViewPool)
    \/ Bounds(RepeatSuggestions)
    \/ Draw({<<0, 0>>}, RepeatSuggestions)
    \/ Keep
    \/ Continue
SpecRepeat == InitRepeat /\ [][NextRepeat]_vars

\* ------------------------------------------------- measuring a spacer
\* A caller makes a spacer of either direction and measures it with
\* suggestions of every size, from nothing to the largest word.
SpacerWords == {0, 1, 50, ProbeSize, Half, Modulus - 1}
SpacerSuggestions ==
    {[width |-> w, height |-> h, hint |-> t] :
        w \in SpacerWords, h \in SpacerWords, t \in Hints}

InitSpacer == InitElement({SpacerVertical, SpacerHorizontal})
NextSpacer == Bounds(SpacerSuggestions) \/ Continue
SpecSpacer == InitSpacer /\ [][NextSpacer]_vars

\* ------------------------------------------------- budgets past the sign bit
\* A caller pushes small fixed-size views and spacers and measures the
\* stack with suggestions at and above the sign bit of the word.
WidePool == {TestView(1, 3, 3), TestView(2, 50, 50), MainSpacer}
WideSizes == {<<400, 300>>, <<Half + 5, Half + 5>>, <<Modulus - 1, Modulus - 1>>}
WideSuggestions ==
    {[width |-> s[1], height |-> s[2], hint |-> h] : s \in WideSizes, h \in Hints}

InitWide == InitWith({"VStack", "HStack"})
NextWide ==
    \/ Push(WidePool)
    \/ Bounds(WideSuggestions)
    \/ Continue
SpecWide == InitWide /\ [][NextWide]_vars

\* ------------------------------------------------- drawing with spacing
\* A caller pushes fixed-size views and spacers, sets the spacing and the
\* padding, and measures the stack or draws it at (100, 100).
SpacedPool == {TestView(1, 50, 50), TestView(2, 100, 100), MainSpacer}
SpacedSpacings == {0, 10}
SpacedSizes == {<<60, 60>>, <<400, 400>>}
SpacedSuggestions ==
    {[width |-> s[1], height |-> s[2], hint |-> h] : s \in SpacedSizes, h \in Hints}

InitSpaced == InitWith({"VStack", "HStack"})
NextSpaced ==
    \/ Push(SpacedPool)
    \/ SetSpacing(SpacedSpacings)
    \/ SetPadding(PaddingSizes)
    \/ Bounds(SpacedSuggestions)
    \/ Draw({<<100, 100>>}, SpacedSuggestions)
    \/ Continue
SpecSpaced == InitSpaced /\ [][NextSpaced]_vars

\* ------------------------------------------------- a horizontal stack
\* A caller builds an HStack from fixed-size views and spacers, sets its
\* spacing, alignment and padding, and measures and draws it.
MirrorSuggestions ==
    {[width |-> 400, height |-> 300, hint |-> h] : h \in Hints}
        \cup {BoundsNew(3, 4)}

InitMirror == InitWith({"HStack"})
NextMirror ==
    \/ Push(ViewPool)
    \/ SetSpacing(Spacings)
    \/ SetAlign
    \/ SetPadding(PaddingSizes)
    \/ Bounds(MirrorSuggestions)
    \/ Draw({<<100, 20>>}, MirrorSuggestions)
    \/ Continue
SpecMirror == InitMirror /\ [][NextMirror]_vars

\* ------------------------------------------------- fixed sizes 0 and 999
\* A caller pushes fixed-size views, among them one of size 0 and one of
\* the size of the probe, and spacers, and measures the stack.
FixedPool == {TestView(1, 0, 0), TestView(2, ProbeSize, ProbeSize),
              TestView(3, 50, 100), MainSpacer}

InitFixed == InitWith({"VStack", "HStack"})
NextFixed ==
    \/ Push(FixedPool)
    \/ Bounds(Suggestions)
    \/ Continue
SpecFixed == InitFixed /\ [][NextFixed]_vars

\* ------------------------------------------------- filling the cross axis
\* A caller pushes a spacer that flexes across the stack, a fixed-size view
\* and a main-axis spacer, sets the padding, and measures the stack.
CrossSpacer == IF stack.kind = "VStack" THEN SpacerHorizontal ELSE SpacerVertical
CrossPool == {CrossSpacer, TestView(1, 50, 100), MainSpacer}

InitCross == InitWith({"VStack", "HStack"})
NextCross ==
    \/ Push(CrossPool)
    \/ SetPadding(PaddingSizes)
    \/ Bounds(Suggestions)
    \/ Continue
SpecCross == InitCross /\ [][NextCross]_vars

\* ------------------------------------------------- setting the padding
\* A caller makes a view of any kind and sets edges of its padding, one
\* call after the other.
PaddedElements == {VStackNew, HStackNew, Picture, TextNew, SpacerVertical}

InitPadding == InitElement(PaddedElements)
NextPadding == PaddingCall(ImagePaddingSizes)
SpecPadding == InitPadding /\ [][NextPadding]_vars

\* ------------------------------------------------- pictures in a stack
\* A caller pushes pictures (one of them padded), a text, a fixed-size view
\* and a spacer into a stack, and measures and draws it.
PaddedPicture ==
    [ImageNew(2, 2, 1) EXCEPT
        !.padding = WithPadding(WithPadding(PaddingZero, "Left", 3), "Top", 7)]
CanvasPool == {Picture, PaddedPicture, Headline, TestView(1, 50, 100), MainSpacer}

\* The stack is drawn inside the surface or across its right border.
CanvasOrigins == {<<100, 100>>, <<499, 0>>}

InitCanvas == InitWith({"VStack", "HStack"})
NextCanvas ==
    \/ Push(CanvasPool)
    \/ Bounds(ImageSuggestions)
    \/ Draw(CanvasOrigins, ImageSuggestions)
    \/ Continue
    \/ NewSurface
SpecCanvas == InitCanvas /\ [][NextCanvas]_vars

\* ------------------------------------------------------ what a claim sees
\* The stack's main axis is the height for a VStack, the width for an HStack.
Vertical == stack.kind = "VStack"
MainOf(b) == IF Vertical THEN b.height ELSE b.width
CrossOf(b) == IF Vertical THEN b.width ELSE b.height
MainPadding == IF Vertical THEN stack.padding.top + stack.padding.bottom
                           ELSE stack.padding.left + stack.padding.right
CrossPadding == IF Vertical THEN stack.padding.left + stack.padding.right
                            ELSE stack.padding.top + stack.padding.bottom
Count == Len(stack.views)
Children == 1..Count
IsFixed(i) == stack.views[i].kind = "TestView"
IsSpacer(i) == stack.views[i].kind = "Spacer"
                 /\ stack.views[i].direction = (IF Vertical THEN "Vertical" ELSE "Horizontal")
AllFixed == \A i \in Children : IsFixed(i)
AllSpacers == \A i \in Children : IsSpacer(i)

RECURSIVE SumOver(_, _)
SumOver(f, set) ==
    IF set = {} THEN 0
    ELSE LET i == CHOOSE j \in set : TRUE IN f[i] + SumOver(f, set \ {i})
MaxOver(f, set) == IF set = {} THEN 0 ELSE CHOOSE m \in {f[i] : i \in set} : \A i \in set : f[i] <= m

\* Main-axis sizes of the fixed-size children, their total, the largest
\* cross-axis size, and the total inter-element spacing.
FixedSet == {i \in Children : IsFixed(i)}
SpacerSet == {i \in Children : IsSpacer(i)}
FixedTotal == SumOver([i \in Children |-> MainOf(stack.views[i])], FixedSet)
FixedCrossMax == MaxOver([i \in Children |-> CrossOf(stack.views[i])], FixedSet)
SpacingTotal == IF Count = 0 THEN 0 ELSE stack.spacing * (Count - 1)

Measuring == call.op = "bounds"
Returned == outcome = "ok"

\* C1: for all Bounds a and b, a - b has width max(0, a.width - b.width) and
\* height max(0, a.height - b.height), each axis on its own, and the
\* subtraction returns (no panic) with both components inside the word range.
C1_SubSaturates ==
    call.op = "sub" =>
        /\ outcome = "ok"
        /\ result.width = (IF call.sb.width - call.rhs.width > 0
                           THEN call.sb.width - call.rhs.width ELSE 0)
        /\ result.height = (IF call.sb.height - call.rhs.height > 0
                            THEN call.sb.height - call.rhs.height ELSE 0)
        /\ result.width \in 0..(Modulus - 1)
        /\ result.height \in 0..(Modulus - 1)

\* One axis saturates while the other one does not.
C1_Witness ==
    /\ call.op = "sub"
    /\ call.sb.width < call.rhs.width
    /\ call.sb.height > call.rhs.height
    /\ call.sb.hint # call.rhs.hint
    /\ result.width = 0
    /\ result.height = call.sb.height - call.rhs.height

\* C2: a VStack or HStack without children measures to width 0 and height 0
\* plus its own padding, for every suggestion and each of the three hints.
C2_EmptyStackMeasuresPadding ==
    (Measuring /\ Count = 0) =>
        /\ Returned
        /\ result.width = stack.padding.left + stack.padding.right
        /\ result.height = stack.padding.top + stack.padding.bottom

\* An empty, unpadded stack offered real space to fill measures (0, 0).
C2_Witness ==
    /\ Measuring /\ Count = 0
    /\ stack.padding = PaddingZero
    /\ call.sb.hint = "InfiniteSpace"
    /\ MainOf(call.sb) > 0
    /\ result.width = 0 /\ result.height = 0

\* C3: with zero padding and n >= 1 fixed-size children, whenever
\* spacing * (n - 1) does not exceed the suggested main-axis size, the stack
\* measures to the sum of the children's main-axis sizes plus
\* spacing * (n - 1) on the main axis and to the largest child cross-axis
\* size on the cross axis, under every hint.
C3_FixedChildrenExtent ==
    (/\ Measuring /\ Count >= 1 /\ AllFixed
     /\ stack.padding = PaddingZero
     /\ SpacingTotal <= MainOf(call.sb)) =>
        /\ Returned
        /\ MainOf(result) = FixedTotal + SpacingTotal
        /\ CrossOf(result) = FixedCrossMax

\* Three different children with spacing between them, measured with a
\* suggestion smaller than what they need.
C3_Witness ==
    /\ Measuring /\ Count = 3 /\ AllFixed
    /\ stack.padding = PaddingZero
    /\ stack.spacing > 0
    /\ stack.views[1] # stack.views[2]
    /\ SpacingTotal <= MainOf(call.sb)
    /\ MainOf(call.sb) < FixedTotal
    /\ MainOf(result) = FixedTotal + SpacingTotal

\* What the placement pass of the returned call recorded: the distribution
\* steps in processing order and the placements in sibling order.
Steps == layout.steps
Placed == layout.placements
Processed == 1..Len(Steps)
StepSizes == [j \in Processed |-> Steps[j].size]
PlacedSizes == [i \in Children |-> Placed[i].size]
SpacerTotal == SumOver(PlacedSizes, SpacerSet)
Filling == call.sb.hint \in {"Optimal", "InfiniteSpace"}

\* C4: a stack with default spacing and padding whose children are one or
\* more spacers flexing along its main axis measures to (0, 0) under a
\* ZeroSpace suggestion and to exactly the suggested main-axis size under an
\* Optimal or InfiniteSpace suggestion, whatever the suggested size and the
\* number of spacers.
C4_SpacersOnly ==
    (/\ Measuring /\ Count >= 1 /\ AllSpacers
     /\ stack.spacing = 0 /\ stack.padding = PaddingZero) =>
        /\ Returned
        /\ call.sb.hint = "ZeroSpace" => (result.width = 0 /\ result.height = 0)
        /\ Filling => MainOf(result) = MainOf(call.sb)

\* C5: under an Optimal or InfiniteSpace suggestion the k main-axis spacers
\* of a stack are the last children processed; with L the budget left when
\* the first of them is reached, each spacer receives
\* floor(remaining / spacers_left), the shares sum to exactly L, differ by at
\* most one, and never decrease in processing order.
C5_SpacerShares ==
    (/\ Measuring /\ outcome # "panic" /\ Filling /\ SpacerSet # {}) =>
        LET n == Len(Steps)
            k == Cardinality(SpacerSet)
            first == n - k + 1
            L == Steps[first].leftover
            remaining(j) == L - SumOver(StepSizes, first..(j - 1))
        IN  /\ \A j \in first..n :
                /\ IsSpacer(Steps[j].index + 1)
                /\ Steps[j].size = remaining(j) \div (n - j + 1)
            /\ SumOver(StepSizes, first..n) = L
            /\ \A i \in first..n, j \in first..n :
                i < j => /\ Steps[i].size <= Steps[j].size
                         /\ Steps[j].size <= Steps[i].size + 1

\* C6: for a stack of fixed-size children the measured size is the
\* children's extent plus the padding of both sides on each axis, under all
\* three hints and for every suggestion.
C6_PaddingAddedForEverySuggestion ==
    (Measuring /\ Count >= 1 /\ AllFixed) =>
        /\ outcome # "panic"
        /\ MainOf(result) = FixedTotal + SpacingTotal + MainPadding
        /\ CrossOf(result) = FixedCrossMax + CrossPadding

\* C7: a stack of fixed-size children (total main size F) and at least one
\* main-axis spacer, with main-axis padding P and total spacing T, that is
\* suggested a main size S >= F + P + T places every fixed-size child at its
\* full size; under Optimal and InfiniteSpace the spacers together receive
\* S - F - P - T and the stack measures S on the main axis, and under
\* ZeroSpace the spacers receive nothing and it measures F + P + T.
C7_SpacersFillWhatIsLeft ==
    (/\ Measuring /\ SpacerSet # {}
     /\ MainOf(call.sb) >= FixedTotal + MainPadding + SpacingTotal) =>
        /\ Returned
        /\ \A i \in FixedSet : Placed[i].size = MainOf(stack.views[i])
        /\ Filling =>
            /\ SpacerTotal = MainOf(call.sb) - FixedTotal - MainPadding - SpacingTotal
            /\ MainOf(result) = MainOf(call.sb)
        /\ call.sb.hint = "ZeroSpace" =>
            /\ SpacerTotal = 0
            /\ MainOf(result) = FixedTotal + MainPadding + SpacingTotal

\* Where a draw call painted the children, on the cross axis of the stack.
Drawing == call.op = "draw"
OriginCross == IF Vertical THEN call.x ELSE call.y
NearPadding == IF Vertical THEN stack.padding.left ELSE stack.padding.top
FarPadding == IF Vertical THEN stack.padding.right ELSE stack.padding.bottom
PaintedAt(k) == IF Vertical THEN log[k].x ELSE log[k].y
PaintedSize(k) == IF Vertical THEN log[k].width ELSE log[k].height
ChildrenFit == \A i \in Children :
                  CrossOf(stack.views[i]) + CrossPadding <= CrossOf(call.sb)

\* C8: a Right-aligned VStack (Bottom-aligned HStack) paints every child
\* that fits at far_edge - child_cross_size on the cross axis, where
\* far_edge = paint origin + suggested cross size - far-side padding.
C8_EndAlignedAtFarEdge ==
    (/\ Drawing /\ Count >= 1 /\ AllFixed /\ ChildrenFit
     /\ stack.align \in {"Right", "Bottom"}) =>
        /\ outcome # "panic"
        /\ Len(log) = Count
        /\ \A k \in 1..Len(log) :
              PaintedAt(k) = OriginCross + CrossOf(call.sb) - FarPadding - PaintedSize(k)

\* C9: a Center-aligned stack paints every child that fits at
\* padding_edge + (available_cross - child_cross) / 2 on the cross axis, the
\* division truncating, where padding_edge = paint origin + near-side
\* padding and available_cross = suggested cross size - cross-axis padding
\* of both sides.
C9_CenteredInContentArea ==
    (/\ Drawing /\ Count >= 1 /\ AllFixed /\ ChildrenFit
     /\ stack.align = "Center") =>
        /\ outcome # "panic"
        /\ Len(log) = Count
        /\ \A k \in 1..Len(log) :
              PaintedAt(k) = OriginCross + NearPadding
                             + (CrossOf(call.sb) - CrossPadding - PaintedSize(k)) \div 2

\* C10: the size recorded for a fixed-size child during distribution is the
\* size the child reports, also when that is more than the budget left for
\* it; a stack (default spacing and padding) whose children need more in
\* total than the suggested main size measures to that total.
C10_OverBudgetNotTruncated ==
    (Measuring /\ outcome # "panic") =>
        /\ \A j \in Processed :
              IsFixed(Steps[j].index + 1) =>
                  Steps[j].size = MainOf(stack.views[Steps[j].index + 1])
        /\ (/\ stack.spacing = 0 /\ stack.padding = PaddingZero
            /\ FixedTotal > MainOf(call.sb)) =>
                /\ Returned
                /\ MainOf(result) = FixedTotal

\* Two fixed-size children and a spacer, the second child alone already
\* larger than the budget left for it; the stack measures past the
\* suggestion.
C10_Witness ==
    /\ Measuring /\ Returned
    /\ stack.spacing = 0 /\ stack.padding = PaddingZero
    /\ Count = 3 /\ Cardinality(FixedSet) = 2 /\ Cardinality(SpacerSet) = 1
    /\ MainOf(call.sb) > 0
    /\ Steps[2].size > Steps[2].leftover
    /\ MainOf(result) = FixedTotal
    /\ MainOf(result) > MainOf(call.sb)

\* Where the ranking of the returned call put child i: its flexibility
\* score and its turn in the distribution loop.
ScoreOf(i) ==
    layout.flexibility[CHOOSE k \in 1..Len(layout.flexibility) :
                           layout.flexibility[k].index = i - 1].score
TurnOf(i) == CHOOSE j \in Processed : Steps[j].index = i - 1

\* Child i is a stack of the root's kind that holds a main-axis spacer and
\* a fixed-size view of positive main size.
IsFlexibleNested(i) ==
    LET inner == stack.views[i]
    IN  /\ inner.kind = stack.kind
        /\ \E k \in 1..Len(inner.views) : inner.views[k] = MainSpacer
        /\ \E k \in 1..Len(inner.views) :
              inner.views[k].kind = "TestView" /\ MainOf(inner.views[k]) > 0

\* Main-axis position at which the view at path was drawn.
DrawnAt(path) ==
    LET e == log[CHOOSE k \in 1..Len(log) : log[k].path = path]
    IN  IF Vertical THEN e.y ELSE e.x

NestedExample == <<InnerStack(SpacerBetween, 0), TestView(3, 100, 100), MainSpacer>>
NestedExampleDrawn ==
    /\ Drawing
    /\ stack.views = NestedExample
    /\ call.sb = infinitely_hinted(BoundsNew(400, 400))

\* C11: in every measure or draw call that returns, a nested stack holding a
\* main-axis spacer and a fixed-size child of positive size has a strictly
\* lower flexibility score than every bare main-axis spacer sibling and
\* takes its turn in the distribution before it; and the stack
\* [[50, spacer, 80], 100, spacer] drawn at the origin with 400 under
\* InfiniteSpace draws the four views at main-axis offsets 0, 70, 150, 250.
C11_NestedStackBeforeBareSpacer ==
    (call.op \in {"bounds", "draw"} /\ outcome # "panic") =>
        /\ \A i \in Children : \A j \in Children :
              (IsFlexibleNested(i) /\ IsSpacer(j)) =>
                  /\ ScoreOf(i) < ScoreOf(j)
                  /\ TurnOf(i) < TurnOf(j)
        /\ NestedExampleDrawn =>
              /\ DrawnAt(<<0, 0>>) = 0
              /\ DrawnAt(<<0, 2>>) = 70
              /\ DrawnAt(<<1>>) = 150
              /\ DrawnAt(<<2>>) = 250

\* The example has been drawn, and its nested stack was ranked against the
\* bare spacer.
C11_Witness ==
    /\ NestedExampleDrawn
    /\ outcome = "ok"
    /\ IsFlexibleNested(1) /\ IsSpacer(3)
    /\ Len(log) = 6

\* What is left of the suggested main size after the padding (Bounds - Bounds).
MainRoom == checked_sub_or_zero(MainOf(call.sb), MainPadding)

\* C12: when the total spacing of a stack with children exceeds the
\* suggested main size minus the padding, the measure call returns without
\* panicking or wrapping and the initial budget of the placement pass is 0.
C12_SpacingSaturates ==
    (Measuring /\ Count >= 1 /\ SpacingTotal > MainRoom) =>
        /\ outcome = "ok"
        /\ layout.initial = 0

\* C13: every draw call on a stack returns, without an arithmetic overflow
\* or underflow: whatever the origin, the suggested bounds, the padding,
\* the alignment and the sizes of the children.
C13_PaintNeverFails ==
    Drawing => outcome = "ok"

\* C14: an Image drawn at (x, y) puts every source pixel (col, row),
\* unmodified, at (x + left padding + col, y + top padding + row), whatever
\* the padding.
C14_ImageBlit ==
    (Drawing /\ stack.kind = "Image" /\ outcome = "ok") =>
        \A col \in 0..(stack.width - 1) : \A row \in 0..(stack.height - 1) :
            [x |-> call.x + stack.padding.left + col,
             y |-> call.y + stack.padding.top + row,
             pixel |-> get_pixel(stack, col, row)] \in canvas

\* What padding_data() reports on an edge, and the size of the last
\* padding call in calls that named the edge (zero when none did).
EdgeOf(p, e) ==
    CASE e = "Left" -> p.left
      [] e = "Right" -> p.right
      [] e = "Top" -> p.top
      [] e = "Bottom" -> p.bottom
RECURSIVE LastNamed(_, _)
LastNamed(calls, e) ==
    IF calls = <<>> THEN 0
    ELSE IF calls[Len(calls)].edge = e THEN calls[Len(calls)].size
    ELSE LastNamed(SubSeq(calls, 1, Len(calls) - 1), e)

LastCallWins ==
    OwnsPadding(stack) =>
        \A e \in Edges : EdgeOf(stack.padding, e) = LastNamed(trace, e)
OneEdgeSet ==
    (OwnsPadding(stack) /\ Len(trace') = Len(trace) + 1) =>
        \A e \in Edges :
            EdgeOf(stack'.padding, e) =
                IF e = trace'[Len(trace')].edge THEN trace'[Len(trace')].size
                ELSE EdgeOf(stack.padding, e)

\* C15: for a Text, an Image, an HStack and a VStack, a call padding(e, n)
\* leaves edge e at n and the other three edges as they were, and after any
\* sequence of such calls every edge has the size of the last call that
\* named it, zero if none did.
C15_PaddingKeepsLastCall ==
    []LastCallWins /\ [][OneEdgeSet]_vars

\* An edge was set twice to different sizes with another edge set in
\* between.
C15_Witness ==
    /\ stack.kind = "Text"
    /\ Len(trace) = 3
    /\ trace[1].edge = trace[3].edge /\ trace[1].size # trace[3].size
    /\ trace[2].edge # trace[1].edge /\ trace[2].size > 0

\* The Image leaves of the tree below and including v.
RECURSIVE ImageLeaves(_)
ImageLeaves(v) ==
    IF v.kind = "Image" THEN {v}
    ELSE UNION {ImageLeaves(v.views[i]) : i \in 1..Len(v.views)}

\* A measure call starts and returns with the surface as it was.
MeasureKeepsCanvas == call'.op = "bounds" => canvas' = canvas
\* The Text leaves of the tree below and including v.
RECURSIVE TextLeaves(_)
TextLeaves(v) ==
    IF v.kind = "Text" THEN {v}
    ELSE UNION {TextLeaves(v.views[i]) : i \in 1..Len(v.views)}
\* Every pixel on the surface that is not white was taken from the picture
\* of an Image leaf of the tree, or is black and the tree has a Text leaf.
PixelsFromImages ==
    \A c \in canvas :
        \/ \E img \in ImageLeaves(stack) : c.pixel[1] = img.id
        \/ (c.pixel = Black /\ TextLeaves(stack) # {})
\* A tree without Image and Text leaves was drawn and the surface is white.
DrawnWithoutImages ==
    (Drawing /\ outcome # "panic" /\ ImageLeaves(stack) = {}
     /\ TextLeaves(stack) = {}) => canvas = White

\* C16: no measure call changes the pixels of the surface, a draw call
\* changes pixels only by drawing Image and Text leaves (a Spacer draws
\* nothing), and a tree without such leaves leaves the surface white.
C16_OnlyLeafPaintWrites ==
    [][MeasureKeepsCanvas]_vars /\ []PixelsFromImages /\ []DrawnWithoutImages

\* A stack holding a picture, a text and a spacer was drawn, and is
\* measured with the picture and the text on the surface.
C16_Witness ==
    /\ Measuring
    /\ outcome = "ok"
    /\ \E c \in canvas : c.pixel = Black
    /\ \E c \in canvas : c.pixel # Black
    /\ SpacerSet # {}
    /\ \E i \in Children : stack.views[i] = PaddedPicture
    /\ \E i \in Children : stack.views[i] = Headline

\* The results the caller kept for the suggestion of the current call.
KeptForCall == {k \in 1..Len(seen) : seen[k].sb = call.sb}

\* A measure or draw call leaves the element tree as it was.
CallsKeepElement == call'.op \in {"bounds", "draw"} => stack' = stack
\* A measure call that returns gives what the kept measure calls with the
\* same suggested bounds gave.
MeasureAsKept ==
    (Measuring /\ outcome # "panic") =>
        \A k \in KeptForCall :
            seen[k].width = result.width /\ seen[k].height = result.height
\* The placements the placement pass of a draw call computed are those the
\* placement pass of the kept measure calls with the same suggested bounds
\* computed.
DrawAsMeasured ==
    (Drawing /\ outcome # "panic") =>
        \A k \in KeptForCall : seen[k].placements = layout.placements

Events == 1..Len(trace)
ParentOf(path) == SubSeq(path, 1, Len(path) - 1)
SameStack(a, b) ==
    /\ Len(trace[a].path) = Len(trace[b].path)
    /\ ParentOf(trace[a].path) = ParentOf(trace[b].path)

\* C18 as stated: in a draw call no child of a stack is measured after a
\* child of that stack has been drawn.
C18_NoMeasureAfterPaint ==
    (Drawing /\ outcome # "panic") =>
        \A a \in Events : \A b \in Events :
            (a < b /\ trace[a].ev = "paint" /\ trace[b].ev = "measure")
                => ~SameStack(a, b)

\* C18, amended: in a draw call the placement pass of a stack, with all the
\* measuring it does, is over before the first of its children is drawn;
\* after it every child is measured once more, at its placed bounds,
\* directly before that child itself is drawn, and not otherwise.
C18_PlacementBeforePaint ==
    (Drawing /\ outcome # "panic") =>
        /\ \A b \in Events :
              trace[b].ev = "paint" =>
                  /\ \E a \in 1..(b - 1) :
                        /\ trace[a].ev = "place"
                        /\ trace[a].path = ParentOf(trace[b].path)
                  /\ b > 1
                  /\ trace[b - 1].ev = "measure"
                  /\ trace[b - 1].path = trace[b].path
        /\ \A a \in Events :
              trace[a].ev = "measure" =>
                  /\ a < Len(trace)
                  /\ trace[a + 1].ev = "paint"
                  /\ trace[a + 1].path = trace[a].path

\* A stack of three children, the first a stack itself, has been drawn.
C18_Witness ==
    /\ Drawing
    /\ outcome = "ok"
    /\ Count = 3
    /\ IsStack(stack.views[1])
    /\ \E b \in Events : trace[b].ev = "paint" /\ trace[b].path = <<0, 2>>
    /\ \E b \in Events : trace[b].ev = "measure" /\ trace[b].path = <<2>>

\* The paths of the views below v, parents before children and siblings in
\* sibling order.
RECURSIVE PreOrder(_, _, _)
PreOrder(v, path, i) ==
    IF i > Len(v.views) THEN <<>>
    ELSE <<path \o <<i - 1>>>> \o PreOrder(v.views[i], path \o <<i - 1>>, 1)
         \o PreOrder(v, path, i + 1)
RECURSIVE DrawnPaths(_)
DrawnPaths(entries) ==
    IF entries = <<>> THEN <<>>
    ELSE <<Head(entries).path>> \o DrawnPaths(Tail(entries))

\* C19: a draw call on a stack that returns has called draw on every view
\* below it exactly once: on the children of every stack in sibling order,
\* index 0 first, whatever the order in which the space was distributed,
\* and on the views below a child before the next child.
C19_EachChildPaintedOnceInOrder ==
    (Drawing /\ outcome # "panic") =>
        DrawnPaths(log) = PreOrder(stack, <<>>, 1)

\* The space went to a later child first, and a nested stack was drawn.
C19_Witness ==
    /\ Drawing
    /\ outcome = "ok"
    /\ Count = 3
    /\ Steps[1].index # 0
    /\ IsStack(stack.views[2])
    /\ Len(log) > 3

\* What the stack's own draw loop did with child i: the measure event and
\* the draw event of the child.
MeasureOf(i) == trace[CHOOSE a \in Events : trace[a].ev = "measure" /\ trace[a].path = <<i - 1>>]
PaintOf(i) == trace[CHOOSE a \in Events : trace[a].ev = "paint" /\ trace[a].path = <<i - 1>>]
PlacedBounds(i) ==
    LET cross == checked_sub_or_zero(CrossOf(call.sb), CrossPadding)
    IN  IF Vertical
        THEN [width |-> cross, height |-> Placed[i].size, hint |-> call.sb.hint]
        ELSE [width |-> Placed[i].size, height |-> cross, hint |-> call.sb.hint]

\* C20: in a draw call that returns, every view is drawn with the width and
\* height it returned from the measure call its stack made just before;
\* for a child of the drawn stack that is the result of measuring the child
\* at its placed bounds (the main size of its placement, the suggested cross
\* size minus the padding), and its main size is the one the child returned
\* to the distribution.
C20_PaintedWithMeasuredBounds ==
    (Drawing /\ outcome # "panic") =>
        /\ \A b \in Events :
              trace[b].ev = "paint" =>
                  \E a \in 1..(b - 1) :
                      /\ trace[a].ev = "measure"
                      /\ trace[a].path = trace[b].path
                      /\ trace[a].width = trace[b].width
                      /\ trace[a].height = trace[b].height
        /\ \A i \in Children :
              /\ MeasureOf(i).sb = PlacedBounds(i)
              /\ MainOf(PaintOf(i)) = Placed[i].size
              /\ PaintOf(i).width = ViewBounds(stack.views[i], PlacedBounds(i)).width
              /\ PaintOf(i).height = ViewBounds(stack.views[i], PlacedBounds(i)).height
              /\ log[CHOOSE k \in 1..Len(log) : log[k].path = <<i - 1>>].width
                    = PaintOf(i).width
              /\ log[CHOOSE k \in 1..Len(log) : log[k].path = <<i - 1>>].height
                    = PaintOf(i).height

\* A stack with a spacer between a nested stack and a fixed-size view was
\* drawn: the spacer returned less than it was placed with across the stack.
C20_Witness ==
    /\ Drawing
    /\ outcome = "ok"
    /\ Count = 3
    /\ IsSpacer(2) /\ IsStack(stack.views[1]) /\ IsFixed(3)
    /\ CrossOf(PaintOf(2)) < CrossOf(PlacedBounds(2))

\* C21: a Spacer measured under ZeroSpace returns (0, 0); under Optimal or
\* InfiniteSpace a vertical spacer returns (0, suggested height) and a
\* horizontal spacer (suggested width, 0), for every suggested size.
C21_SpacerMeasure ==
    (Measuring /\ stack.kind = "Spacer") =>
        /\ outcome = "ok"
        /\ result.width =
              IF call.sb.hint # "ZeroSpace" /\ stack.direction = "Horizontal"
              THEN call.sb.width ELSE 0
        /\ result.height =
              IF call.sb.hint # "ZeroSpace" /\ stack.direction = "Vertical"
              THEN call.sb.height ELSE 0

\* A vertical spacer was measured with a suggestion that is wider than
\* high and larger than the probe.
C21_Witness ==
    /\ Measuring
    /\ stack = SpacerVertical
    /\ call.sb.hint = "InfiniteSpace"
    /\ call.sb.width = Modulus - 1
    /\ call.sb.height = Half
    /\ result.height = Half

\* The main-axis size child i returns for a probe of the ranking, and the
\* score the three probes add up to.
ProbeMain(i, probe) == MainOf(ViewBounds(stack.views[i], probe))
StretchProbe == infinitely_hinted(BoundsNew(ProbeSize, ProbeSize))
ShrinkProbe == zero_hinted(BoundsNew(0, 0))
OptimalProbe == optimally_hinted(BoundsNew(ProbeSize, ProbeSize))
ExpectedScore(i) ==
    (IF ProbeMain(i, StretchProbe) = ProbeSize THEN 3 ELSE 0)
    + (IF ProbeMain(i, ShrinkProbe) = 0 THEN 3
       ELSE IF ProbeMain(i, ShrinkProbe) < ProbeMain(i, OptimalProbe) THEN 2
       ELSE 0)

\* C22: in every measure or draw call that returns, the flexibility score
\* of a child is 3 if it stretches to the 999 probe under InfiniteSpace,
\* plus 3 if it measures 0 under ZeroSpace or else plus 2 if it measures
\* less under ZeroSpace than under Optimal; the children take their turns
\* in ascending score, children of equal score in sibling order.
C22_ScoreAndStableOrder ==
    (call.op \in {"bounds", "draw"} /\ outcome # "panic") =>
        /\ \A i \in Children : ScoreOf(i) = ExpectedScore(i)
        /\ \A i \in Children : \A j \in Children :
              (ScoreOf(i) < ScoreOf(j) \/ (ScoreOf(i) = ScoreOf(j) /\ i < j))
                  => TurnOf(i) < TurnOf(j)

\* Two spacers around a nested stack: the nested stack (score 5) goes
\* first, the spacers (score 6 each) follow in sibling order.
C22_Witness ==
    /\ Measuring
    /\ outcome = "ok"
    /\ Count = 3
    /\ IsSpacer(1) /\ IsFlexibleNested(2) /\ IsSpacer(3)
    /\ ScoreOf(2) = 5 /\ ScoreOf(1) = 6
    /\ TurnOf(2) = 1 /\ TurnOf(1) = 2 /\ TurnOf(3) = 3

\* The suggestion the placement pass of the called stack works with
\* (suggested bounds - padding), and the sum of what the children return
\* for it on the main axis.
PlacementBounds == Sub(call.sb, PaddingBounds(stack.padding))
BaseFromViews ==
    SumOver([i \in Children |-> MainOf(ViewBounds(stack.views[i], PlacementBounds))],
            Children)
Base == IF call.sb.hint = "InfiniteSpace" THEN MainRoom ELSE BaseFromViews

\* C23: in a measure call that returns, the initial budget of the placement
\* pass is min(base, suggested main size - total spacing), the subtraction
\* saturating at zero, where base is the sum of the children's main sizes
\* at the undivided suggestion under Optimal and ZeroSpace and the
\* suggested main size under InfiniteSpace; it never exceeds the suggested
\* main size.
C23_InitialBudget ==
    (Measuring /\ IsStack(stack) /\ outcome # "panic") =>
        /\ layout.initial = Min(Base, checked_sub_or_zero(MainRoom, SpacingTotal))
        /\ layout.initial <= MainRoom

\* C24: a measure call returns without panicking or wrapping, every step
\* of its distribution offers floor(leftover budget / views left), and the
\* next step starts from max(0, leftover budget - size the child took),
\* for budgets and sizes of the whole word range.
C24_DistributionStep ==
    (Measuring /\ IsStack(stack)) =>
        /\ outcome = "ok"
        /\ \A j \in Processed :
              /\ Steps[j].suggestion = Steps[j].leftover \div (Len(Steps) - (j - 1))
              /\ j < Len(Steps) =>
                    Steps[j + 1].leftover =
                        checked_sub_or_zero(Steps[j].leftover, Steps[j].size)

\* Where the draw call started to lay out the children on the main axis,
\* and where it drew child i.
OriginMain ==
    IF Vertical THEN call.y + stack.padding.top ELSE call.x + stack.padding.left
DrawnMain(i) == DrawnAt(<<i - 1>>)

\* C25: in every measure or draw call that returns, the placements list
\* the children in sibling order, the first at offset 0 and every next one
\* at the offset of the one before plus its size plus the spacing; a draw
\* call draws each child at its offset from the padded origin, so that
\* consecutive children lie exactly the spacing apart.
C25_PlacementsInSiblingOrder ==
    (call.op \in {"bounds", "draw"} /\ outcome # "panic") =>
        /\ Len(Placed) = Count
        /\ \A i \in Children :
              /\ Placed[i].index = i - 1
              /\ Placed[i].off =
                    IF i = 1 THEN 0
                    ELSE Placed[i - 1].off + Placed[i - 1].size + stack.spacing
              /\ Drawing => DrawnMain(i) = OriginMain + Placed[i].off
              /\ (Drawing /\ i > 1) =>
                    DrawnMain(i) - (DrawnMain(i - 1) + Placed[i - 1].size)
                        = stack.spacing

\* The 50 and the 100 view with spacing 10 drawn at (100, 100): the second
\* one is drawn 60 further on the main axis.
C25_Witness ==
    /\ Drawing
    /\ outcome = "ok"
    /\ stack.views = <<TestView(1, 50, 50), TestView(2, 100, 100)>>
    /\ stack.spacing = 10
    /\ stack.padding = PaddingZero
    /\ DrawnMain(1) = 100
    /\ DrawnMain(2) = 160

\* A view with the axes exchanged: widths and heights, the direction of a
\* spacer, HStack and VStack, Top/Center/Bottom and Left/Center/Right,
\* left/right and top/bottom padding.
TransposedBounds(b) == [width |-> b.height, height |-> b.width, hint |-> b.hint]
TransposedKind(kind) ==
    CASE kind = "HStack" -> "VStack"
      [] kind = "VStack" -> "HStack"
      [] OTHER -> kind
TransposedAlign(align) ==
    CASE align = "Top" -> "Left"
      [] align = "Bottom" -> "Right"
      [] align = "Left" -> "Top"
      [] align = "Right" -> "Bottom"
      [] OTHER -> align
TransposedDirection(direction) ==
    CASE direction = "Horizontal" -> "Vertical"
      [] direction = "Vertical" -> "Horizontal"
      [] OTHER -> direction
RECURSIVE Transposed(_)
RECURSIVE TransposedViews(_)
TransposedViews(views) ==
    IF views = <<>> THEN <<>>
    ELSE <<Transposed(Head(views))>> \o TransposedViews(Tail(views))
Transposed(v) ==
    [kind |-> TransposedKind(v.kind), id |-> v.id,
     width |-> v.height, height |-> v.width,
     direction |-> TransposedDirection(v.direction),
     views |-> TransposedViews(v.views), spacing |-> v.spacing,
     align |-> TransposedAlign(v.align),
     padding |-> [left |-> v.padding.top, right |-> v.padding.bottom,
                  top |-> v.padding.left, bottom |-> v.padding.right],
     glyphs |-> v.glyphs, wrap_text |-> v.wrap_text]

\* A list of draw calls with x and y, width and height exchanged; the kind
\* of the drawn view is left out.
RECURSIVE DrawnTransposed(_)
DrawnTransposed(entries) ==
    IF entries = <<>> THEN <<>>
    ELSE <<[path |-> Head(entries).path, id |-> Head(entries).id,
            x |-> Head(entries).y, y |-> Head(entries).x,
            width |-> Head(entries).height, height |-> Head(entries).width,
            hint |-> Head(entries).hint]>> \o DrawnTransposed(Tail(entries))
RECURSIVE DrawnPlain(_)
DrawnPlain(entries) ==
    IF entries = <<>> THEN <<>>
    ELSE <<[path |-> Head(entries).path, id |-> Head(entries).id,
            x |-> Head(entries).x, y |-> Head(entries).y,
            width |-> Head(entries).width, height |-> Head(entries).height,
            hint |-> Head(entries).hint]>> \o DrawnPlain(Tail(entries))

\* C26: an HStack measures to what the VStack built from its transposed
\* children, alignment and padding measures for the transposed suggestion,
\* with width and height exchanged, and draws its children where that
\* VStack draws them, with x and y exchanged; the one call fails exactly
\* when the other does.
C26_HStackIsTransposedVStack ==
    LET SameMeasure(m) ==
            /\ (outcome = "ok") = ~m.ovf
            /\ outcome # "panic" =>
                  result.width = m.height /\ result.height = m.width
        SameDrawing(d) ==
            /\ (outcome = "ok") = ~d.ovf
            /\ outcome # "panic" => DrawnPlain(log) = DrawnTransposed(CallsOf(d.steps))
    IN  /\ (Measuring /\ stack.kind = "HStack") =>
              SameMeasure(ViewBounds(Transposed(stack), TransposedBounds(call.sb)))
        /\ (Drawing /\ stack.kind = "HStack") =>
              SameDrawing(ViewDraw(Transposed(stack), <<>>, call.y, call.x,
                                   TransposedBounds(call.sb)))

\* A padded, bottom-aligned HStack with spacing, a spacer and two fixed
\* views has been drawn.
C26_Witness ==
    /\ Drawing
    /\ outcome = "ok"
    /\ stack.kind = "HStack"
    /\ stack.align = "Bottom"
    /\ stack.spacing = 5
    /\ stack.padding.top = 7 /\ stack.padding.left = 0 /\ stack.padding.right = 7
    /\ Count = 3 /\ IsSpacer(2) /\ IsFixed(1) /\ IsFixed(3)
    /\ stack.views[1] # stack.views[3]

\* C27: in every measure call that returns, every fixed-size child, be its
\* size 0, 999 or anything else, has a lower flexibility score than every
\* main-axis spacer and takes its turn in the distribution before it,
\* whatever the sibling order.
C27_FixedBeforeSpacers ==
    (Measuring /\ outcome # "panic") =>
        \A i \in FixedSet : \A j \in SpacerSet :
            /\ ScoreOf(i) < ScoreOf(j)
            /\ TurnOf(i) < TurnOf(j)

\* A spacer in front of the view of size 0 and the view of size 999: both
\* score 3, the spacer 6.
C27_Witness ==
    /\ Measuring
    /\ outcome = "ok"
    /\ stack.views = <<MainSpacer, TestView(1, 0, 0), TestView(2, ProbeSize, ProbeSize)>>
    /\ ScoreOf(1) = 6 /\ ScoreOf(2) = 3 /\ ScoreOf(3) = 3
    /\ TurnOf(1) = 3

\* Every child took no more on the main axis than the distribution offered
\* it, and the padding and the spacing fit into the suggested main size.
WithinOffers == \A j \in Processed : Steps[j].size <= Steps[j].suggestion
OverheadFits == MainPadding + SpacingTotal <= MainOf(call.sb)

\* C28: in a measure call in which every child takes at most what it is
\* offered and the main-axis padding plus the total spacing fit into the
\* suggested main size, the measured main size does not exceed the
\* suggested one, the leftover budget never grows from one step of the
\* distribution to the next, and the recorded sizes add up to no more than
\* the initial budget.
C28_MainSizeWithinSuggestion ==
    (Measuring /\ IsStack(stack) /\ outcome # "panic" /\ WithinOffers /\ OverheadFits) =>
        /\ MainOf(result) <= MainOf(call.sb)
        /\ \A j \in Processed :
              j < Len(Steps) => Steps[j + 1].leftover <= Steps[j].leftover
        /\ SumOver(StepSizes, Processed) <= layout.initial

\* A padded stack with spacing, a fixed view and two spacers fills the
\* suggested main size exactly.
C28_Witness ==
    /\ Measuring
    /\ outcome = "ok"
    /\ WithinOffers /\ OverheadFits
    /\ Count = 3 /\ FixedSet # {} /\ Cardinality(SpacerSet) = 2
    /\ stack.spacing = 5 /\ MainPadding = 14
    /\ MainOf(result) = MainOf(call.sb)
    /\ MainOf(call.sb) > 0

\* Child i returns no more on the cross axis than the suggestion g gives it.
CrossWithin(i, g) == CrossOf(ViewBounds(stack.views[i], g)) <= CrossOf(g)

\* C29: in a measure call on a stack whose padding fits into the suggested
\* cross size and whose children return no more on the cross axis than
\* they are given (by the suggestion and by the suggestion less the
\* padding), the measured cross size does not exceed the suggested one.
C29_CrossSizeWithinSuggestion ==
    (/\ Measuring /\ IsStack(stack) /\ outcome # "panic"
     /\ CrossPadding <= CrossOf(call.sb)
     /\ \A i \in Children :
           CrossWithin(i, call.sb) /\ CrossWithin(i, PlacementBounds)) =>
        CrossOf(result) <= CrossOf(call.sb)

\* The build of a finished call: a wrapped outcome comes from the release
\* build, and a product that overflows ends a call of the debug build.
SameBuild(c) == (outcome = "wrapped") \/ ~c.ovf

\* a < b as the program answers it
Lt(c) == c.ordering = "Less"

\* C30: in a finished comparison of a with b, the answer is Equal exactly
\* when widths and heights are equal, and when the answer is Less, the
\* comparison of b with a in the same build does not answer Less.
C30_OrderingAntisymmetric ==
    (call.op = "cmp" /\ outcome # "panic") =>
        /\ (result.ordering = "Equal") <=> eq(call.sb, call.rhs)
        /\ (/\ result.ordering = "Less"
            /\ SameBuild(partial_cmp(call.rhs, call.sb))) =>
               ~Lt(partial_cmp(call.rhs, call.sb))

====
